---- MODULE Spec2Model ----
(***************************************************************************)
(* Model of the user-suggestion and cooldown-gated tagging pipeline of the *)
(* community bot: the cooldown tracker (utils.py), the relevance ranker    *)
(* (graph.py), the topic expander and the suggestion engine (utils.py).    *)
(*                                                                         *)
(* Strings the code inspects character by character (topic names, the      *)
(* classifier's output text) are sequences of one-character strings.       *)
(* time.time() is the variable now, counted in ticks; a second is          *)
(* TicksPerSecond ticks, so that sub-second clock readings exist.          *)
(***************************************************************************)
EXTENDS Integers, Sequences, FiniteSets, TLC

VARIABLES
    now,                  \* the reading of time.time(), in ticks
    user_tag_cooldowns,   \* utils.py: dict user id -> last tagged time
    graph,                \* the graph store: set of User-[r]->Topic edges
    call,                 \* the last suggest_relevant_users call: inputs, locals, outcome
    tagged,               \* history: user id -> time of the last update_user_cooldown
    cooldown_lock,        \* utils.py: the thread holding cooldown_lock, or None
    sweeper,              \* per thread in clear_expired_cooldowns: position and locals
    probe,                \* the last is_user_in_cooldown call of the interleaving: user, result
    cycle,                \* per suggestion cycle: position, candidates, checks, selection
    conversation_lock,    \* utils.py: the thread holding conversation_lock, or None
    worker,               \* per handler thread: the function it runs, position, locks held
    conversation_state,   \* utils.py: dict user id -> the dict object of the user's state
    objects,              \* the Python objects of the conversation states: id -> dict or list
    view,                 \* the object a caller got from a read of conversation_state
    run_survey,           \* app.py: the background survey threads started and not yet run
    dm_log,               \* the survey invitations delivered: who received one, on whose command
    turn                  \* per get_openai_response call in progress: position and locals

vars == <<now, user_tag_cooldowns, graph, call, tagged, cooldown_lock, sweeper, probe,
          cycle, conversation_lock, worker, conversation_state, objects, view,
          run_survey, dm_log, turn>>

(* the variables of the message handlers *)
handlers == <<cycle, conversation_lock, worker, conversation_state, objects, view,
              run_survey, dm_log, turn>>
locking == <<conversation_lock, worker>>
dialogue == <<conversation_state, objects, view>>
surveying == <<run_survey, dm_log, turn>>

(* the variables of the threads interleaved on cooldown_lock *)
threads == <<cooldown_lock, sweeper, probe>>

----------------------------------------------------------------------------
(* Bounds of the model *)

MaxEpoch == 1          \* the clock runs over MaxEpoch + 1 cooldown windows
TicksPerSecond == 2    \* clock resolution
MaxEdges == 2          \* edges of a graph drawn freely (RankGraphs)
MaxSuggestions == 3    \* max_suggestions is drawn from 0..MaxSuggestions
MaxTopics == 2         \* canonical topic lists hold 1..MaxTopics topics

(* Program constants *)

USER_TAG_COOLDOWN == 3600
CHANNEL_TAG_COOLDOWN == 300

None == "None"
Users == {"A", "B", "C"}

(* the threads that run clear_expired_cooldowns *)
Sweepers == {"s1", "s2"}

IS_EXPERT_IN == "IS_EXPERT_IN"
WORKING_ON == "WORKING_ON"
INTERESTED_IN == "INTERESTED_IN"
MENTIONS == "MENTIONS"
valid_relationships == {MENTIONS, INTERESTED_IN, WORKING_ON, IS_EXPERT_IN}

(* Topic names: "AI", "aix" (a variant containing "ai"), "ML". *)
AI == <<"A", "I">>
AIX == <<"a", "i", "x">>
ML == <<"M", "L">>
TopicNames == {AI, AIX, ML}

----------------------------------------------------------------------------
(* Generic helpers *)

Min(a, b) == IF a < b THEN a ELSE b

(* s[:n] of Python for n >= 0 *)
Take(s, n) == SubSeq(s, 1, Min(n, Len(s)))

(* x in s for a Python list s *)
InList(x, s) == \E i \in 1..Len(s) : s[i] = x

(* str.lower() on the characters the model uses *)
LowerChar(c) ==
    CASE c = "A" -> "a" [] c = "I" -> "i" [] c = "M" -> "m"
      [] c = "L" -> "l" [] c = "X" -> "x" [] OTHER -> c

Lower(s) == [i \in 1..Len(s) |-> LowerChar(s[i])]

(* a in b for Python strings: a is a contiguous substring of b *)
IsSubstring(a, b) ==
    \E k \in 0..(Len(b) - Len(a)) : SubSeq(b, k + 1, k + Len(a)) = a

(* str.strip(): drop leading and trailing whitespace *)
IsSpace(c) == c = " "

RECURSIVE LStrip(_)
LStrip(s) == IF s # <<>> /\ IsSpace(Head(s)) THEN LStrip(Tail(s)) ELSE s

RECURSIVE RStrip(_)
RStrip(s) ==
    IF s # <<>> /\ IsSpace(s[Len(s)]) THEN RStrip(SubSeq(s, 1, Len(s) - 1)) ELSE s

Strip(s) == RStrip(LStrip(s))

(* str.split(sep) for a one-character separator: always at least one piece *)
RECURSIVE SplitFrom(_, _, _, _)
SplitFrom(s, sep, i, cur) ==
    IF i > Len(s) THEN <<cur>>
    ELSE IF s[i] = sep THEN <<cur>> \o SplitFrom(s, sep, i + 1, <<>>)
    ELSE SplitFrom(s, sep, i + 1, Append(cur, s[i]))

Split(s, sep) == SplitFrom(s, sep, 1, <<>>)

(* All orderings of a finite set as sequences *)
Perms(S) ==
    {p \in [1..Cardinality(S) -> S] : \A i, j \in 1..Cardinality(S) : p[i] = p[j] => i = j}

----------------------------------------------------------------------------
(* Cooldown tracker, utils.py 67-121.  Each function runs under            *)
(* cooldown_lock, so its body is one atomic step.                          *)

Window == USER_TAG_COOLDOWN * TicksPerSecond

(* user_tag_cooldowns.get(user_id, 0) *)
CooldownGet(cd, u) == IF u \in DOMAIN cd THEN cd[u] ELSE 0

(* variant: the window compared with is the channel throttle *)
is_user_in_cooldown_channel(cd, t, u) ==
    t - CooldownGet(cd, u) < CHANNEL_TAG_COOLDOWN * TicksPerSecond

is_user_in_cooldown(cd, t, u) == t - CooldownGet(cd, u) < Window

(* max(0, int(USER_TAG_COOLDOWN - elapsed)); int() truncates towards zero *)
get_cooldown_remaining(cd, t, u) ==
    LET left == Window - (t - CooldownGet(cd, u))
    IN  IF left <= 0 THEN 0 ELSE left \div TicksPerSecond

(* variant: an existing stamp is kept (dict.setdefault) *)
CooldownPut_keepFirst(cd, t, u) ==
    [v \in (DOMAIN cd) \cup {u} |-> IF v \in DOMAIN cd THEN cd[v] ELSE t]

(* user_tag_cooldowns[user_id] = time.time() *)
CooldownPut(cd, t, u) ==
    [v \in (DOMAIN cd) \cup {u} |-> IF v = u THEN t ELSE cd[v]]

(* variant: the sweep also takes the entry whose window has just closed *)
expired_users_inclusive(cd, t) == {u \in DOMAIN cd : t - cd[u] >= Window}

(* 110-113: the users whose stamp is older than the window *)
expired_users(cd, t) == {u \in DOMAIN cd : t - cd[u] > Window}

CooldownSweep(cd, t) ==
    [v \in (DOMAIN cd) \ expired_users(cd, t) |-> cd[v]]

----------------------------------------------------------------------------
(* Topic expander, utils.py 494-586.  resp is what the classifier call     *)
(* gives: kind "raise" (the call raised), or a response with a status and  *)
(* an output text.                                                         *)

(* [term.strip() for term in group.split(',')] over content.split('|') *)
RECURSIVE TermsOfGroups(_)
TermsOfGroups(groups) ==
    IF groups = <<>> THEN <<>>
    ELSE LET parts == Split(Head(groups), ",")
         IN  [i \in 1..Len(parts) |-> Strip(parts[i])] \o TermsOfGroups(Tail(groups))

(* variant: seen_topics is not consulted *)
RECURSIVE AppendUnseen_noSeen(_, _, _)
AppendUnseen_noSeen(expanded, items, skipEmpty) ==
    IF items = <<>> THEN expanded
    ELSE IF skipEmpty /\ Head(items) = <<>>
         THEN AppendUnseen_noSeen(expanded, Tail(items), skipEmpty)
         ELSE AppendUnseen_noSeen(Append(expanded, Head(items)), Tail(items), skipEmpty)

(* the loops of 555-568: append each unseen non-empty term in order *)
RECURSIVE AppendUnseen(_, _, _)
AppendUnseen(expanded, items, skipEmpty) ==
    IF items = <<>> THEN expanded
    ELSE LET term == Head(items)
         IN  IF (skipEmpty /\ term = <<>>) \/ InList(term, expanded)
             THEN AppendUnseen(expanded, Tail(items), skipEmpty)
             ELSE AppendUnseen(Append(expanded, term), Tail(items), skipEmpty)

(* variant: the canonical topics are not added after the output *)
ParseExpansion_outputOnly(content, canonical_topics) ==
    AppendUnseen(<<>>, TermsOfGroups(Split(content, "|")), TRUE)

(* 548-568: the terms of the output, then the canonical topics it missed *)
ParseExpansion(content, canonical_topics) ==
    LET fromOutput == AppendUnseen(<<>>, TermsOfGroups(Split(content, "|")), TRUE)
    IN  AppendUnseen(fromOutput, canonical_topics, FALSE)

expand_topics_for_matching(canonical_topics, resp) ==
    IF resp.kind = "raise" THEN canonical_topics                    \* 578-586
    ELSE IF resp.status = "incomplete" /\ resp.text = <<>>
         THEN canonical_topics                                      \* 541-543
    ELSE IF Len(canonical_topics) = 0
         THEN canonical_topics            \* 574 divides by zero, caught at 578
    ELSE ParseExpansion(Strip(resp.text), canonical_topics)

----------------------------------------------------------------------------
(* Relevance ranker, graph.py 190-283.  An edge of the store is a record   *)
(* [user, rel, topic, count, last].                                        *)

(* CASE type(r) WHEN ... END of the query *)
QueryPriority(rel) ==
    CASE rel = IS_EXPERT_IN -> 1
      [] rel = WORKING_ON -> 2
      [] rel = INTERESTED_IN -> 3
      [] OTHER -> 4

(* ORDER BY priority, r.count DESC, r.lastMentioned DESC *)
QueryBefore(e, f) ==
    \/ QueryPriority(e.rel) < QueryPriority(f.rel)
    \/ /\ QueryPriority(e.rel) = QueryPriority(f.rel)
       /\ \/ e.count > f.count
          \/ e.count = f.count /\ e.last > f.last

(* MATCH (u)-[r]->(t {name: $topic_name}) WHERE NOT u.id = $exclude_user_id. *)
(* With a null parameter the comparison is null and WHERE drops the row.     *)
QueryMatch(g, topic, exclude_user_id) ==
    {e \in g : e.topic = topic /\ exclude_user_id # None /\ e.user # exclude_user_id}

QueryRow(e) ==
    [user_id |-> e.user, relationship |-> e.rel,
     activity_level |-> e.count, last_activity |-> e.last]

(* The rows one query can return: every order the ORDER BY allows (rows   *)
(* equal on all three keys come in any order), cut by LIMIT.              *)
QueryResults(g, topic, exclude_user_id, limit) ==
    LET m == QueryMatch(g, topic, exclude_user_id)
    IN  {Take([i \in 1..Len(p) |-> QueryRow(p[i])], limit) :
            p \in {q \in Perms(m) :
                     \A i, j \in 1..Len(q) : i < j => ~QueryBefore(q[j], q[i])}}

(* results[topic] = topic_users on an insertion-ordered dict *)
DictPut(d, k, v) ==
    IF \E i \in 1..Len(d) : d[i].topic = k
    THEN [i \in 1..Len(d) |-> IF d[i].topic = k THEN [topic |-> k, users |-> v] ELSE d[i]]
    ELSE Append(d, [topic |-> k, users |-> v])

(* The loop of 216-260 inside the try of 214: a failing query leaves the  *)
(* loop through the except of 278 and the function returns {}.            *)
RECURSIVE RankLoop(_, _, _, _, _, _)
RankLoop(g, topics, exclude_user_id, limit, fail, results) ==
    IF topics = <<>> THEN {results}
    ELSE IF Head(topics) \in fail THEN {<<>>}
    ELSE UNION {
           RankLoop(g, Tail(topics), exclude_user_id, limit, fail,
                    IF topic_users # <<>> THEN DictPut(results, Head(topics), topic_users)
                                          ELSE results) :
           topic_users \in QueryResults(g, Head(topics), exclude_user_id, limit)}

(* env.driver_ok: get_driver() (211, outside the try) does not raise;      *)
(* env.fail: the topics whose session.run raises.                          *)
get_relevant_users_for_topics(g, topics, exclude_user_id, limit, env) ==
    IF ~env.driver_ok THEN {[raised |-> TRUE, results |-> <<>>]}
    ELSE {[raised |-> FALSE, results |-> r] :
             r \in RankLoop(g, topics, exclude_user_id, limit, env.fail, <<>>)}

----------------------------------------------------------------------------
(* Suggestion engine, utils.py 588-749.  A candidate of user_map is a      *)
(* record [user_id, relationships, best_relationship, activity_level,      *)
(* topics]; user_map, an insertion-ordered dict, is the sequence of its    *)
(* values.  The display name travels with the user id and is left out.     *)

(* variant: the loop has no break, the last matching canonical topic wins *)
RECURSIVE CanonicalOf_lastMatch(_, _)
CanonicalOf_lastMatch(found_topic, topics) ==
    IF topics = <<>> THEN found_topic
    ELSE LET canonical == topics[Len(topics)]
         IN  IF \/ IsSubstring(Lower(canonical), Lower(found_topic))
                \/ IsSubstring(Lower(found_topic), Lower(canonical))
             THEN canonical
             ELSE CanonicalOf_lastMatch(found_topic, SubSeq(topics, 1, Len(topics) - 1))

(* 642-646: the first canonical topic that contains found_topic or is      *)
(* contained in it, lower-cased; found_topic itself when there is none.    *)
RECURSIVE CanonicalOf(_, _)
CanonicalOf(found_topic, topics) ==
    IF topics = <<>> THEN found_topic
    ELSE IF \/ IsSubstring(Lower(Head(topics)), Lower(found_topic))
            \/ IsSubstring(Lower(found_topic), Lower(Head(topics)))
         THEN Head(topics)
    ELSE CanonicalOf(found_topic, Tail(topics))

(* 670-674 *)
KeepBest(best, relationship) ==
    IF relationship = IS_EXPERT_IN THEN IS_EXPERT_IN
    ELSE IF relationship = WORKING_ON /\ best # IS_EXPERT_IN THEN WORKING_ON
    ELSE best

(* 650-658: the candidate created at the first edge of a user *)
NewCandidate(user) ==
    [user_id |-> user.user_id, relationships |-> <<>>,
     best_relationship |-> user.relationship,
     activity_level |-> user.activity_level, topics |-> <<>>]

(* 660-674: one edge merged into its user's candidate *)
MergeEdge(c, canonical_topic, user) ==
    [c EXCEPT
       !.topics = IF InList(canonical_topic, @) THEN @ ELSE Append(@, canonical_topic),
       !.relationships = Append(@, [topic |-> canonical_topic,
                                    relationship |-> user.relationship,
                                    activity_level |-> user.activity_level]),
       !.best_relationship = KeepBest(@, user.relationship)]

(* variant: every edge opens a candidate of its own *)
AddUser_noMerge(user_map, canonical_topic, user) ==
    Append(user_map, MergeEdge(NewCandidate(user), canonical_topic, user))

(* 648-674: the body of the inner loop *)
AddUser(user_map, canonical_topic, user) ==
    LET um == IF \E i \in 1..Len(user_map) : user_map[i].user_id = user.user_id
              THEN user_map ELSE Append(user_map, NewCandidate(user))
    IN  [i \in 1..Len(um) |->
            IF um[i].user_id = user.user_id
            THEN MergeEdge(um[i], canonical_topic, user) ELSE um[i]]

RECURSIVE AddUsers(_, _, _)
AddUsers(user_map, canonical_topic, users) ==
    IF users = <<>> THEN user_map
    ELSE AddUsers(AddUser(user_map, canonical_topic, Head(users)),
                  canonical_topic, Tail(users))

(* 636-674: the outer loop over relevant_users.items() *)
RECURSIVE Consolidate(_, _, _)
Consolidate(user_map, relevant_users, topics) ==
    IF relevant_users = <<>> THEN user_map
    ELSE Consolidate(
           AddUsers(user_map, CanonicalOf(Head(relevant_users).topic, topics),
                    Head(relevant_users).users),
           Tail(relevant_users), topics)

(* 679-683: the sort key *)
SortTier(u) ==
    IF u.best_relationship = IS_EXPERT_IN THEN 1
    ELSE IF u.best_relationship = WORKING_ON THEN 2 ELSE 3

(* variant: the activity level is the primary key *)
SortBefore_activityFirst(u, v) ==
    \/ u.activity_level > v.activity_level
    \/ u.activity_level = v.activity_level /\ SortTier(u) < SortTier(v)

SortBefore(u, v) ==
    \/ SortTier(u) < SortTier(v)
    \/ SortTier(u) = SortTier(v) /\ u.activity_level > v.activity_level

(* variant: equal keys come out in the reverse of their order *)
Sorted_reverseTies(s) ==
    LET rank(i) == Cardinality({j \in 1..Len(s) :
                       SortBefore(s[j], s[i]) \/ (~SortBefore(s[i], s[j]) /\ j >= i)})
    IN  [r \in 1..Len(s) |-> s[CHOOSE i \in 1..Len(s) : rank(i) = r]]

(* sorted(): stable, equal keys keep their order *)
Sorted(s) ==
    LET rank(i) == Cardinality({j \in 1..Len(s) :
                       SortBefore(s[j], s[i]) \/ (~SortBefore(s[i], s[j]) /\ j <= i)})
    IN  [r \in 1..Len(s) |-> s[CHOOSE i \in 1..Len(s) : rank(i) = r]]

(* variant: the cooldown filter is skipped *)
AvailableUsers_unfiltered(sorted_users, cd, t) == sorted_users

(* 687-702 *)
AvailableUsers(sorted_users, cd, t) ==
    SelectSeq(sorted_users, LAMBDA u : ~is_user_in_cooldown(cd, t, u.user_id))

CooldownFiltered(sorted_users, cd, t) ==
    SelectSeq(sorted_users, LAMBDA u : is_user_in_cooldown(cd, t, u.user_id))

NoSuggestion == [kind |-> "none", topics |-> <<>>, users |-> <<>>]
Raised == [kind |-> "raise", topics |-> <<>>, users |-> <<>>]

NoLocals ==
    [expanded_topics |-> <<>>, relevant_users |-> <<>>, ranked |-> FALSE,
     sorted_users |-> <<>>, cooldown_filtered |-> <<>>]

(* variant: no survivor of the cooldown filter gives None *)
SuggestBody_noneWhenEmpty(topics, max_suggestions, expanded_topics, rk, cd, t) ==
    IF rk.raised
    THEN [ret |-> Raised, locals |-> [NoLocals EXCEPT !.expanded_topics = expanded_topics]]
    ELSE IF rk.results = <<>>
    THEN [ret |-> NoSuggestion,
          locals |-> [NoLocals EXCEPT !.expanded_topics = expanded_topics,
                                      !.ranked = TRUE]]
    ELSE LET sorted_users == Sorted(Consolidate(<<>>, rk.results, topics))
             available_users == AvailableUsers(sorted_users, cd, t)
         IN  [ret |-> IF available_users = <<>> THEN NoSuggestion
                      ELSE [kind |-> "set", topics |-> topics,
                            users |-> Take(available_users, max_suggestions)],
              locals |-> [expanded_topics |-> expanded_topics,
                          relevant_users |-> rk.results, ranked |-> TRUE,
                          sorted_users |-> sorted_users,
                          cooldown_filtered |-> CooldownFiltered(sorted_users, cd, t)]]

(* 606-742, the body of the try, for one outcome rk of the ranker.  The    *)
(* result is the value returned or the exception raised, with the locals.  *)
SuggestBody(topics, max_suggestions, expanded_topics, rk, cd, t) ==
    IF rk.raised
    THEN [ret |-> Raised, locals |-> [NoLocals EXCEPT !.expanded_topics = expanded_topics]]
    ELSE IF rk.results = <<>>                                       \* 621-623
    THEN [ret |-> NoSuggestion,
          locals |-> [NoLocals EXCEPT !.expanded_topics = expanded_topics,
                                      !.ranked = TRUE]]
    ELSE LET sorted_users == Sorted(Consolidate(<<>>, rk.results, topics))
             available_users == AvailableUsers(sorted_users, cd, t)
         IN  [ret |-> [kind |-> "set", topics |-> topics,
                       users |-> Take(available_users, max_suggestions)],
              locals |-> [expanded_topics |-> expanded_topics,
                          relevant_users |-> rk.results, ranked |-> TRUE,
                          sorted_users |-> sorted_users,
                          cooldown_filtered |-> CooldownFiltered(sorted_users, cd, t)]]

(* variant: no except clause, the exception leaves the function *)
Catch_propagate(out) == out

(* 744-749: except Exception: ... return None *)
Catch(out) == IF out.ret.kind = "raise" THEN [out EXCEPT !.ret = NoSuggestion] ELSE out

(* variant: the ranker is asked for max_suggestions users per topic *)
suggest_relevant_users_noOverfetch(g, topics, exclude_user_id, max_suggestions, resp, env, cd, t) ==
    LET expanded_topics == expand_topics_for_matching(topics, resp)
    IN  {Catch(SuggestBody(topics, max_suggestions, expanded_topics, rk, cd, t)) :
           rk \in get_relevant_users_for_topics(g, expanded_topics, exclude_user_id,
                                                max_suggestions, env)}

(* The outcomes of one call: the classifier answers resp, the store       *)
(* behaves as env, the cooldown map is cd and the clock reads t.          *)
suggest_relevant_users(g, topics, exclude_user_id, max_suggestions, resp, env, cd, t) ==
    LET expanded_topics == expand_topics_for_matching(topics, resp)
        extended_limit == max_suggestions * 3
    IN  {Catch(SuggestBody(topics, max_suggestions, expanded_topics, rk, cd, t)) :
           rk \in get_relevant_users_for_topics(g, expanded_topics, exclude_user_id,
                                                extended_limit, env)}

----------------------------------------------------------------------------
(* Inputs the specifications draw from *)

GraphTopics == {AI, AIX}
Stamps == {1}
RelTypes == valid_relationships

ActivityLevels == {2, 5, 9}

(* MERGE keeps one edge of a type between a user and a topic *)
WellFormedGraph(g) ==
    \A e, f \in g : (e.user = f.user /\ e.rel = f.rel /\ e.topic = f.topic) => e = f

(* Edges drawn freely: two users, any type, either topic, two counts *)
FreeEdges ==
    [user : {"A", "B"}, rel : RelTypes, topic : GraphTopics,
     count : {2, 5}, last : Stamps]

RECURSIVE GraphsUpTo(_)
GraphsUpTo(n) ==
    IF n = 0 THEN {{}}
    ELSE LET smaller == GraphsUpTo(n - 1)
         IN  smaller \cup {g \cup {e} : g \in smaller, e \in FreeEdges}

(* Any graph of at most MaxEdges free edges *)
RankGraphs == {g \in GraphsUpTo(MaxEdges) : WellFormedGraph(g)}

(* Every user holds exactly one edge, to the topic "AI" *)
RosterGraphs ==
    {{[user |-> u, rel |-> f[u][1], topic |-> AI, count |-> f[u][2], last |-> 1] :
        u \in Users} : f \in [Users -> RelTypes \X ActivityLevels]}

(* Classifier responses: the call raises; truncated without text; the     *)
(* texts "AI, aix" and "aix|AI" in full.                                   *)
RespRaise == [kind |-> "raise", status |-> "none", text |-> <<>>]
RespTruncated == [kind |-> "response", status |-> "incomplete", text |-> <<>>]
RespText(status, text) == [kind |-> "response", status |-> status, text |-> text]
TextAIaix == <<"A", "I", ",", " ", "a", "i", "x">>
TextaixAI == <<"a", "i", "x", "|", "A", "I", " ">>

StoreOk == [driver_ok |-> TRUE, fail |-> {}]

NoCall ==
    [op |-> "idle", topics |-> <<>>, exclude_user_id |-> None, max_suggestions |-> 0,
     resp |-> RespRaise, env |-> StoreOk, at |-> 0,
     ret |-> NoSuggestion, locals |-> NoLocals]

(* No thread is inside the cooldown tracker *)
IdleSweeper == [pc |-> "idle", now |-> 0, before |-> <<>>, expired_users |-> {}]
NoProbe == [user |-> None, in_cooldown |-> FALSE]

ThreadsIdle ==
    /\ cooldown_lock = None
    /\ sweeper = [s \in Sweepers |-> IdleSweeper]
    /\ probe = NoProbe

(* the reference to no object *)
NoRef == 0

(* the suggestion cycles and the handler threads *)
Cycles == {"c1", "c2"}
Workers == {"w1", "w2"}

(* A cycle: the candidates in rank order, the cooldown checks made so far  *)
(* (user, clock reading, the cycles that had marked the user by then), the *)
(* users that passed, the users returned, the stamp of each mark           *)
IdleCycle ==
    [pc |-> "idle", max_suggestions |-> 0, sorted_users |-> <<>>, checked |-> <<>>,
     available_users |-> <<>>, returned |-> <<>>, marks |-> <<>>]
(* A handler thread: the statements it runs, its position in them, the     *)
(* locks it holds, whether it is inside an external call                   *)
(* Two get_openai_response calls may be in progress; none is *)
Turns == {"t1", "t2"}
IdleTurn ==
    [pc |-> "idle", user_id |-> None, user_message |-> None, state |-> <<>>,
     bot_response |-> None, current_state |-> <<>>, read_at |-> 0, wrote_at |-> 0]

IdleWorker == [prog |-> <<>>, pc |-> 1, holds |-> {}, in_call |-> FALSE]

(* No handler runs and no conversation is stored *)
HandlersIdle ==
    /\ cycle = [c \in Cycles |-> IdleCycle]
    /\ conversation_lock = None
    /\ worker = [w \in Workers |-> IdleWorker]
    /\ conversation_state = <<>>
    /\ objects = <<>>
    /\ view = NoRef
    /\ run_survey = <<>>
    /\ dm_log = {}
    /\ turn = [t \in Turns |-> IdleTurn]

(* Nothing is stored, no call was made and no thread runs; the clock stands *)
(* one window after the epoch                                              *)
InitIdle ==
    /\ now = Window
    /\ graph = {}
    /\ user_tag_cooldowns = <<>>
    /\ tagged = <<>>
    /\ call = NoCall
    /\ ThreadsIdle
    /\ HandlersIdle

(* variant: the call starts the cooldown of every user it returns *)
Suggest_marking(TopicLists, ExcludeIds, MaxValues, Resps, Envs) ==
    \E topics \in TopicLists, exclude_user_id \in ExcludeIds,
       max_suggestions \in MaxValues, resp \in Resps, env \in Envs :
      \E out \in suggest_relevant_users(graph, topics, exclude_user_id, max_suggestions,
                                        resp, env, user_tag_cooldowns, now) :
         /\ call' = [op |-> "suggest", topics |-> topics,
                     exclude_user_id |-> exclude_user_id,
                     max_suggestions |-> max_suggestions,
                     resp |-> resp, env |-> env, at |-> now,
                     ret |-> out.ret, locals |-> out.locals]
         /\ LET returned == {out.ret.users[i].user_id : i \in 1..Len(out.ret.users)}
            IN  user_tag_cooldowns' =
                    [u \in DOMAIN user_tag_cooldowns \cup returned |->
                        IF u \in returned THEN now ELSE user_tag_cooldowns[u]]
         /\ UNCHANGED <<now, graph, tagged>>
         /\ UNCHANGED threads
         /\ UNCHANGED handlers

(* suggest_relevant_users called with inputs from the given sets; the     *)
(* call is recorded with its locals and its return value.                  *)
Suggest(TopicLists, ExcludeIds, MaxValues, Resps, Envs) ==
    \E topics \in TopicLists, exclude_user_id \in ExcludeIds,
       max_suggestions \in MaxValues, resp \in Resps, env \in Envs :
      \E out \in suggest_relevant_users(graph, topics, exclude_user_id, max_suggestions,
                                        resp, env, user_tag_cooldowns, now) :
         /\ call' = [op |-> "suggest", topics |-> topics,
                     exclude_user_id |-> exclude_user_id,
                     max_suggestions |-> max_suggestions,
                     resp |-> resp, env |-> env, at |-> now,
                     ret |-> out.ret, locals |-> out.locals]
         /\ UNCHANGED <<now, user_tag_cooldowns, graph, tagged>>
         /\ UNCHANGED threads
         /\ UNCHANGED handlers

----------------------------------------------------------------------------
(* SpecRank: the suggestion engine as a function of the graph content and *)
(* of the set of users in cooldown.  The clock stands one window after    *)
(* the epoch and the users of a drawn set were tagged at that instant.    *)

InitRank ==
    /\ now = Window
    /\ graph \in RankGraphs \cup RosterGraphs
    /\ \E S \in SUBSET Users :
         /\ user_tag_cooldowns = [u \in S |-> Window]
         /\ tagged = [u \in S |-> Window]
    /\ call = NoCall
    /\ ThreadsIdle
    /\ HandlersIdle

SuggestRank ==
    /\ call = NoCall
    /\ Suggest({<<AI>>}, {"Z"}, 1..MaxSuggestions,
               {RespRaise, RespText("completed", TextAIaix),
                RespText("completed", TextaixAI)},
               {StoreOk})

NextRank == SuggestRank

SpecRank == InitRank /\ [][NextRank]_vars

----------------------------------------------------------------------------
(* SpecFail: the suggestion engine when the classifier and the graph      *)
(* store fail.  Nobody is in cooldown.                                     *)

Envs == [driver_ok : BOOLEAN, fail : SUBSET GraphTopics]

InitFail ==
    /\ now = Window
    /\ graph \in RankGraphs
    /\ user_tag_cooldowns = <<>>
    /\ tagged = <<>>
    /\ call = NoCall
    /\ ThreadsIdle
    /\ HandlersIdle

SuggestFail ==
    /\ call = NoCall
    /\ Suggest({<<AI>>}, {"Z", None}, {0, MaxSuggestions},
               {RespRaise, RespTruncated, RespText("completed", TextAIaix),
                RespText("incomplete", TextaixAI)},
               Envs)

NextFail == SuggestFail

SpecFail == InitFail /\ [][NextFail]_vars

----------------------------------------------------------------------------
(* SpecExpand: the topic expander as a function of the canonical topic     *)
(* list and of what the classifier answers.  The tagging gate admits only  *)
(* non-empty topic lists; a list may name a topic twice.                   *)

RECURSIVE ListsUpTo(_, _)
ListsUpTo(S, n) ==
    IF n = 0 THEN {<<>>}
    ELSE LET shorter == ListsUpTo(S, n - 1)
         IN  shorter \cup {Append(l, x) : l \in shorter, x \in S}

TopicLists == ListsUpTo(TopicNames, MaxTopics) \ {<<>>}

(* Output texts: "", " ", "AI, aix", "aix|AI ", "aix, aix|aix", "ML,,AI" *)
TextEmpty == <<>>
TextBlank == <<" ">>
TextRepeat == <<"a", "i", "x", ",", " ", "a", "i", "x", "|", "a", "i", "x">>
TextGaps == <<"M", "L", ",", ",", "A", "I">>
ExpandTexts == {TextEmpty, TextBlank, TextAIaix, TextaixAI, TextRepeat, TextGaps}

ExpandResps ==
    {RespRaise} \cup {RespText(st, tx) : st \in {"completed", "incomplete"}, tx \in ExpandTexts}

InitExpand ==
    /\ now = Window
    /\ graph = {}
    /\ user_tag_cooldowns = <<>>
    /\ tagged = <<>>
    /\ call = NoCall
    /\ ThreadsIdle
    /\ HandlersIdle

(* expand_topics_for_matching(canonical_topics), the result recorded *)
Expand ==
    /\ call = NoCall
    /\ \E canonical_topics \in TopicLists, resp \in ExpandResps :
         call' = [NoCall EXCEPT
                    !.op = "expand", !.topics = canonical_topics, !.resp = resp,
                    !.ret = [kind |-> "list",
                             topics |-> expand_topics_for_matching(canonical_topics, resp),
                             users |-> <<>>]]
    /\ UNCHANGED <<now, user_tag_cooldowns, graph, tagged>>
    /\ UNCHANGED threads
    /\ UNCHANGED handlers

NextExpand == Expand

SpecExpand == InitExpand /\ [][NextExpand]_vars

----------------------------------------------------------------------------
(* SpecFetch: the suggestion engine on a topic that holds more edges than  *)
(* the ranker's LIMIT lets through.                                        *)

(* Every user holds one edge to "AI" (A of count 9, B of count 5, C of     *)
(* count 2); A may hold a second edge to "AI" of another type, count 3,    *)
(* and B an edge to "aix", count 3                                         *)
CrowdGraphs ==
    {{[user |-> u, rel |-> f[u], topic |-> AI,
       count |-> (CASE u = "A" -> 9 [] u = "B" -> 5 [] OTHER -> 2), last |-> 1] :
        u \in Users}
     \cup {[user |-> "A", rel |-> r, topic |-> AI, count |-> 3, last |-> 1] : r \in more}
     \cup {[user |-> "B", rel |-> r, topic |-> AIX, count |-> 3, last |-> 1] : r \in other} :
       f \in [Users -> RelTypes],
       more \in {{}} \cup {{r} : r \in RelTypes},
       other \in {{}} \cup {{r} : r \in RelTypes}}

InitFetch ==
    /\ now = Window
    /\ graph \in {g \in CrowdGraphs : WellFormedGraph(g)}
    /\ \E S \in SUBSET Users :
         /\ user_tag_cooldowns = [u \in S |-> Window]
         /\ tagged = [u \in S |-> Window]
    /\ call = NoCall
    /\ ThreadsIdle
    /\ HandlersIdle

SuggestFetch ==
    /\ call = NoCall
    /\ Suggest({<<AI>>}, {"Z"}, 1..MaxSuggestions,
               {RespRaise, RespText("completed", TextAIaix)}, {StoreOk})

NextFetch == SuggestFetch

SpecFetch == InitFetch /\ [][NextFetch]_vars

----------------------------------------------------------------------------
(* SpecTopics: the suggestion engine on canonical lists of one or two      *)
(* topics, some overlapping ("AI" is contained in "aix"), with and without *)
(* expansion.  Nobody is in cooldown.                                      *)

CanonicalLists == {<<AI, AIX>>, <<AIX, AI>>, <<ML>>, <<ML, AI>>}

InitTopics ==
    /\ now = Window
    /\ graph \in RankGraphs
    /\ user_tag_cooldowns = <<>>
    /\ tagged = <<>>
    /\ call = NoCall
    /\ ThreadsIdle
    /\ HandlersIdle

SuggestTopics ==
    /\ call = NoCall
    /\ Suggest(CanonicalLists, {"Z"}, {MaxSuggestions},
               {RespRaise, RespText("completed", TextAIaix)}, {StoreOk})

NextTopics == SuggestTopics

SpecTopics == InitTopics /\ [][NextTopics]_vars

----------------------------------------------------------------------------
(* Spec: the cooldown tracker over time, with suggestion cycles whose     *)
(* calls run one after the other.  The caller marks the users it tagged   *)
(* with update_user_cooldown; any user may be marked.                      *)

ClockPoints == {e * Window + d : e \in 0..MaxEpoch, d \in {0, 1, Window - 1}}

(* Every user holds one edge to "AI", as expert or by mention: A of count *)
(* 9, B of count 5, C of count 2                                          *)
CooldownGraphs ==
    {{[user |-> u, rel |-> f[u], topic |-> AI,
       count |-> (CASE u = "A" -> 9 [] u = "B" -> 5 [] OTHER -> 2), last |-> 1] :
        u \in Users} : f \in [Users -> {IS_EXPERT_IN, MENTIONS}]}

Init ==
    /\ now \in ClockPoints
    /\ graph \in CooldownGraphs
    /\ user_tag_cooldowns = <<>>
    /\ tagged = <<>>
    /\ call = NoCall
    /\ ThreadsIdle
    /\ HandlersIdle

(* time passes between two operations *)
Tick ==
    /\ \E t \in ClockPoints : t > now /\ now' = t
    /\ call' = NoCall
    /\ UNCHANGED <<user_tag_cooldowns, graph, tagged>>
    /\ UNCHANGED threads
    /\ UNCHANGED handlers

UpdateUserCooldown(u) ==
    /\ user_tag_cooldowns' = CooldownPut(user_tag_cooldowns, now, u)
    /\ tagged' = CooldownPut(tagged, now, u)
    /\ call' = NoCall
    /\ UNCHANGED <<now, graph>>
    /\ UNCHANGED threads
    /\ UNCHANGED handlers

ClearExpiredCooldowns ==
    /\ user_tag_cooldowns' = CooldownSweep(user_tag_cooldowns, now)
    /\ call' = NoCall
    /\ UNCHANGED <<now, graph, tagged>>
    /\ UNCHANGED threads
    /\ UNCHANGED handlers

SuggestCycle ==
    Suggest({<<AI>>}, {"Z"}, {1, MaxSuggestions}, {RespRaise}, {StoreOk})

Next ==
    \/ Tick
    \/ \E u \in Users : UpdateUserCooldown(u)
    \/ ClearExpiredCooldowns
    \/ SuggestCycle

Spec == Init /\ [][Next]_vars

----------------------------------------------------------------------------
(* SpecSweep: the cooldown tracker used by several threads.  Every         *)
(* function takes cooldown_lock for its whole body; update_user_cooldown   *)
(* and is_user_in_cooldown are one statement under the lock, while         *)
(* clear_expired_cooldowns reads the clock, scans and deletes in separate  *)
(* steps with the lock held.  The clock runs on whoever holds the lock.    *)

(* variant: the lock excludes nobody *)
CanAcquire_always(lock) == TRUE

(* with cooldown_lock: the lock is taken only when no thread holds it *)
CanAcquire(lock) == lock = None

MarkedUsers == {"A", "B"}

InitSweep ==
    /\ now \in ClockPoints
    /\ graph = {}
    /\ user_tag_cooldowns = <<>>
    /\ tagged = <<>>
    /\ call = NoCall
    /\ ThreadsIdle
    /\ HandlersIdle

(* update_user_cooldown(u) by any thread *)
MarkUnderLock(u) ==
    /\ CanAcquire(cooldown_lock)
    /\ UpdateUserCooldown(u)

(* is_user_in_cooldown(u) by any thread *)
ProbeUnderLock(u) ==
    /\ CanAcquire(cooldown_lock)
    /\ probe' = [user |-> u,
                 in_cooldown |-> is_user_in_cooldown(user_tag_cooldowns, now, u)]
    /\ UNCHANGED <<now, user_tag_cooldowns, graph, call, tagged, cooldown_lock, sweeper>>
    /\ UNCHANGED handlers

(* 108-109: the lock is taken and now = time.time() is read *)
SweepEnter(s) ==
    /\ sweeper[s].pc = "idle"
    /\ CanAcquire(cooldown_lock)
    /\ cooldown_lock' = s
    /\ sweeper' = [sweeper EXCEPT ![s] =
                     [pc |-> "scan", now |-> now, before |-> user_tag_cooldowns,
                      expired_users |-> {}]]
    /\ UNCHANGED <<now, user_tag_cooldowns, graph, call, tagged, probe>>
    /\ UNCHANGED handlers

(* 110-113: the loop over list(user_tag_cooldowns.items()) *)
SweepScan(s) ==
    /\ sweeper[s].pc = "scan"
    /\ sweeper' = [sweeper EXCEPT
                     ![s].pc = "delete",
                     ![s].expired_users = expired_users(user_tag_cooldowns, sweeper[s].now)]
    /\ UNCHANGED <<now, user_tag_cooldowns, graph, call, tagged, cooldown_lock, probe>>
    /\ UNCHANGED handlers

(* 115-116: del user_tag_cooldowns[user_id] for each expired user; del of  *)
(* a key that is gone raises KeyError after any part of the deletions.     *)
SweepDelete(s) ==
    /\ sweeper[s].pc = "delete"
    /\ LET gone == sweeper[s].expired_users
       IN  IF gone \subseteq DOMAIN user_tag_cooldowns
           THEN /\ user_tag_cooldowns' =
                     [v \in (DOMAIN user_tag_cooldowns) \ gone |-> user_tag_cooldowns[v]]
                /\ sweeper' = [sweeper EXCEPT ![s].pc = "done"]
           ELSE /\ \E part \in SUBSET (gone \cap DOMAIN user_tag_cooldowns) :
                     user_tag_cooldowns' =
                       [v \in (DOMAIN user_tag_cooldowns) \ part |-> user_tag_cooldowns[v]]
                /\ sweeper' = [sweeper EXCEPT ![s].pc = "raised"]
    /\ UNCHANGED <<now, graph, call, tagged, cooldown_lock, probe>>
    /\ UNCHANGED handlers

(* 118-121: return len(expired_users); the with statement frees the lock *)
SweepExit(s) ==
    /\ sweeper[s].pc \in {"done", "raised"}
    /\ cooldown_lock' = IF cooldown_lock = s THEN None ELSE cooldown_lock
    /\ sweeper' = [sweeper EXCEPT ![s] = IdleSweeper]
    /\ UNCHANGED <<now, user_tag_cooldowns, graph, call, tagged, probe>>
    /\ UNCHANGED handlers

NextSweep ==
    \/ Tick
    \/ \E u \in MarkedUsers : MarkUnderLock(u)
    \/ \E u \in MarkedUsers : ProbeUnderLock(u)
    \/ \E s \in Sweepers : SweepEnter(s)
    \/ \E s \in Sweepers : SweepScan(s)
    \/ \E s \in Sweepers : SweepDelete(s)
    \/ \E s \in Sweepers : SweepExit(s)

SpecSweep == InitSweep /\ [][NextSweep]_vars

----------------------------------------------------------------------------
(* Tagging gate, utils.py 927-1011.  resp is what the classifier call      *)
(* does: it raises, or it returns a response with a status and an output   *)
(* text.                                                                   *)

(* str.upper() on the letters the texts use *)
UpperChar(c) ==
    CASE c = "y" -> "Y" [] c = "e" -> "E" [] c = "s" -> "S"
      [] c = "n" -> "N" [] c = "o" -> "O" [] c = "a" -> "A"
      [] c = "i" -> "I" [] c = "x" -> "X" [] OTHER -> c

Upper(s) == [i \in 1..Len(s) |-> UpperChar(s[i])]

YES == <<"Y", "E", "S">>

(* 1004-1005 *)
tech_keywords ==
    << <<"a", "i">>,
       <<"m", "l">>,
       <<"m", "a", "c", "h", "i", "n", "e", " ", "l", "e", "a", "r", "n", "i", "n", "g">>,
       <<"a", "r", "t", "i", "f", "i", "c", "i", "a", "l", " ",
         "i", "n", "t", "e", "l", "l", "i", "g", "e", "n", "c", "e">>,
       <<"d", "a", "t", "a">>,
       <<"s", "o", "f", "t", "w", "a", "r", "e">>,
       <<"p", "r", "o", "g", "r", "a", "m", "m", "i", "n", "g">>,
       <<"r", "o", "b", "o", "t", "i", "c", "s">>,
       <<"r", "e", "s", "e", "a", "r", "c", "h">> >>

(* 1007 *)
has_tech(topics) ==
    \E t \in 1..Len(topics), k \in 1..Len(tech_keywords) :
        IsSubstring(tech_keywords[k], Lower(topics[t]))

(* 1008, without the bound on the topic count *)
fallback_decision_anyCount(topics) == has_tech(topics)
(* 1008 *)
fallback_decision(topics) == has_tech(topics) /\ Len(topics) <= 3

(* 989, comparing the output text without upper-casing it *)
ParseDecision_raw(output_text) == Strip(output_text) = YES
(* 979, 985 and 989: decision = output_text.strip().upper(); decision == "YES" *)
ParseDecision(output_text) == Upper(Strip(output_text)) = YES

GateResult(ret, path, classifier_called) ==
    [ret |-> ret, path |-> path, classifier_called |-> classifier_called]

(* 945-951, rejecting lists of more than 9 topics *)
HardReject_nine(topics) == topics = <<>> \/ Len(topics) > 9
(* 945-951 *)
HardReject(topics) == topics = <<>> \/ Len(topics) > 8

(* variant: a truncated response without text goes to the keyword heuristic *)
should_suggest_users_truncatedFallback(topics, resp) ==
    IF HardReject(topics) THEN GateResult(FALSE, "reject", FALSE)
    ELSE IF resp.kind = "raise" \/ (resp.status = "incomplete" /\ resp.text = <<>>)
         THEN GateResult(fallback_decision(topics), "fallback", TRUE)
    ELSE GateResult(ParseDecision(resp.text), "primary", TRUE)

(* should_suggest_users(channel_id, topics): the value returned, the path  *)
(* taken, and whether the classifier call of 961-971 was made              *)
should_suggest_users(topics, resp) ==
    IF HardReject(topics) THEN GateResult(FALSE, "reject", FALSE)
    ELSE IF resp.kind = "raise" THEN GateResult(fallback_decision(topics), "fallback", TRUE)
    ELSE IF resp.status = "incomplete" /\ resp.text = <<>>
         THEN GateResult(FALSE, "truncated", TRUE)
    ELSE GateResult(ParseDecision(resp.text), "primary", TRUE)

----------------------------------------------------------------------------
(* SpecGate: the tagging gate as a function of the topic list and of what  *)
(* the classifier call does.                                               *)

MaxGateLen == 9

(* Topics of the gate: "AI", "XL" (no keyword), "MAIL" (holds "ai"),       *)
(* "data"                                                                  *)
XL == <<"X", "L">>
MAIL == <<"M", "A", "I", "L">>
Data == <<"d", "a", "t", "a">>
GateTopics == {AI, XL, MAIL, Data}

(* Lists of 0 to MaxGateLen topics: one topic, then another repeated *)
GateLists ==
    {[i \in 1..n |-> IF i = 1 THEN a ELSE b] : n \in 0..MaxGateLen, a \in GateTopics, b \in GateTopics}

(* Output texts: "YES", "yes", " YES ", "Yes", "NO", "YES.", "YES NO", ""  *)
TextYES == YES
Textyes == <<"y", "e", "s">>
TextYESpadded == <<" ", "Y", "E", "S", " ">>
TextYes == <<"Y", "e", "s">>
TextNO == <<"N", "O">>
TextYESdot == <<"Y", "E", "S", ".">>
TextYESNO == <<"Y", "E", "S", " ", "N", "O">>
GateTexts == {TextYES, Textyes, TextYESpadded, TextYes, TextNO, TextYESdot, TextYESNO, TextEmpty}

GateResps ==
    {RespRaise} \cup {RespText(st, tx) : st \in {"completed", "incomplete"}, tx \in GateTexts}

(* should_suggest_users(channel_id, topics), the result recorded *)
Gate ==
    /\ call = NoCall
    /\ \E topics \in GateLists, resp \in GateResps :
         call' = [NoCall EXCEPT
                    !.op = "gate", !.topics = topics, !.resp = resp,
                    !.ret = should_suggest_users(topics, resp)]
    /\ UNCHANGED <<now, user_tag_cooldowns, graph, tagged>>
    /\ UNCHANGED threads
    /\ UNCHANGED handlers

NextGate == Gate

SpecGate == InitIdle /\ [][NextGate]_vars

----------------------------------------------------------------------------
(* Message delivery, utils.py 135-154 (the same function at app.py         *)
(* 85-104).  outcomes[k] is what the k-th call of say_func does: it        *)
(* returns ("ok"), raises SlackApiError with error 'ratelimited', raises   *)
(* another SlackApiError, or raises another Exception.                     *)

MaxRetries == 3

Outcomes == {"ok", "ratelimited", "slack_error", "exception"}

RECURSIVE Pow2(_)
Pow2(n) == IF n = 0 THEN 1 ELSE 2 * Pow2(n - 1)

(* variant: the same wait before every retry *)
wait_time_constant(attempt) == 1

(* 143: wait_time = 2 ** attempt *)
wait_time(attempt) == Pow2(attempt)

SayResult(ret, calls, slept, raised) ==
    [ret |-> ret, calls |-> calls, slept |-> slept, raised |-> raised]

(* the loop of 137-151 from iteration attempt on, slept seconds waited so far *)
RECURSIVE SayLoop(_, _, _, _)
SayLoop(outcomes, attempt, max_retries, slept) ==
    IF attempt >= max_retries THEN SayResult(FALSE, attempt, slept, FALSE)
    ELSE LET outcome == outcomes[attempt + 1]
         IN  CASE outcome = "ok" -> SayResult(TRUE, attempt + 1, slept, FALSE)
               [] outcome = "ratelimited" ->
                      SayLoop(outcomes, attempt + 1, max_retries, slept + wait_time(attempt))
               [] OTHER -> SayResult(FALSE, attempt + 1, slept, FALSE)

(* safe_say with one more iteration than max_retries *)
safe_say_extraAttempt(outcomes, max_retries) == SayLoop(outcomes, 0, max_retries + 1, 0)
(* safe_say(say_func, message, user_id, max_retries) *)
safe_say(outcomes, max_retries) == SayLoop(outcomes, 0, max_retries, 0)

----------------------------------------------------------------------------
(* SpecSay: message delivery as a function of what the calls of say_func   *)
(* do and of max_retries.                                                  *)

OutcomeLists == [1..(MaxRetries + 1) -> Outcomes]

(* safe_say(say_func, message, user_id, max_retries), the result recorded *)
Say ==
    /\ call = NoCall
    /\ \E outcomes \in OutcomeLists, max_retries \in 0..MaxRetries :
         call' = [op |-> "safe_say", outcomes |-> outcomes, max_retries |-> max_retries,
                  ret |-> safe_say(outcomes, max_retries)]
    /\ UNCHANGED <<now, user_tag_cooldowns, graph, tagged>>
    /\ UNCHANGED threads
    /\ UNCHANGED handlers

NextSay == Say

SpecSay == InitIdle /\ [][NextSay]_vars

----------------------------------------------------------------------------
(* Graph writer, graph.py 28-78.  A pair of topic_relationships is a      *)
(* record [topic, rel]; the node properties (u.name) and the edge          *)
(* properties the ranker never reads (firstMentioned, context) are left    *)
(* out.  A node exists in the store when an edge of the store ends in it.  *)

(* 47-51, keeping the type as given *)
NormalizeType_asGiven(relationship_type) == relationship_type
(* 47-51 *)
NormalizeType(relationship_type) ==
    IF relationship_type \notin valid_relationships THEN MENTIONS ELSE relationship_type

(* 54-61: MERGE (u)-[r:TYPE]->(t) ON CREATE SET r.count = 1,               *)
(* r.lastMentioned = $ts ON MATCH SET r.count = r.count + 1,               *)
(* r.lastMentioned = $ts                                                   *)
MergeRelationship(g, user_id, topic, rel, ts) ==
    LET matched == {e \in g : e.user = user_id /\ e.rel = rel /\ e.topic = topic}
    IN  IF matched = {}
        THEN g \cup {[user |-> user_id, rel |-> rel, topic |-> topic, count |-> 1, last |-> ts]}
        ELSE (g \ matched)
                 \cup {[e EXCEPT !.count = e.count + 1, !.last = ts] : e \in matched}

(* the loop of 46-78 over the pairs i..upto of the batch *)
RECURSIVE WritePairs(_, _, _, _, _, _)
WritePairs(g, user_id, topic_relationships, timestamp, i, upto) ==
    IF i > upto THEN g
    ELSE LET pair == topic_relationships[i]
             written == MergeRelationship(g, user_id, pair.topic, NormalizeType(pair.rel), timestamp)
         IN  WritePairs(written, user_id, topic_relationships, timestamp, i + 1, upto)

(* update_knowledge_graph_with_relationships: the store after the call.    *)
(* The session.run of pair fail_at raises (none does when fail_at exceeds  *)
(* the batch); the pairs before it are written, the exception leaves the   *)
(* function.                                                               *)
update_knowledge_graph_with_relationships(g, user_id, topic_relationships, timestamp, fail_at) ==
    WritePairs(g, user_id, topic_relationships, timestamp, 1, fail_at - 1)

----------------------------------------------------------------------------
(* SpecGraph: the graph writer over a sequence of write requests.          *)

MaxObservations == 3
MaxBatch == 2
MaxStamp == 2

(* a relationship type outside the enumeration *)
KNOWS == "KNOWS"
WriteUsers == {"A", "B"}
WriteTopics == {AI, ML}
WriteTypes == {MENTIONS, IS_EXPERT_IN, KNOWS}
WritePairSet == [topic : WriteTopics, rel : WriteTypes]
(* Batches of 1 to MaxBatch pairs: one pair, then another repeated *)
Batches ==
    {[i \in 1..n |-> IF i = 1 THEN a ELSE b] : n \in 1..MaxBatch, a \in WritePairSet, b \in WritePairSet}

RECURSIVE TotalCount(_)
TotalCount(g) ==
    IF g = {} THEN 0
    ELSE LET e == CHOOSE x \in g : TRUE IN e.count + TotalCount(g \ {e})

(* update_knowledge_graph_with_relationships(user_id, display_name,        *)
(* topic_relationships, timestamp), the request recorded                   *)
UpdateGraph ==
    /\ call = NoCall
    /\ \E user_id \in WriteUsers, topic_relationships \in Batches, timestamp \in 1..MaxStamp :
         \E fail_at \in 1..(Len(topic_relationships) + 1) :
           /\ TotalCount(graph) + Len(topic_relationships) <= MaxObservations
           /\ graph' = update_knowledge_graph_with_relationships(
                           graph, user_id, topic_relationships, timestamp, fail_at)
           /\ call' = [op |-> "update_graph", user_id |-> user_id,
                       topic_relationships |-> topic_relationships,
                       timestamp |-> timestamp, fail_at |-> fail_at,
                       ret |-> IF fail_at > Len(topic_relationships) THEN "done" ELSE "raised"]
    /\ UNCHANGED <<now, user_tag_cooldowns, tagged>>
    /\ UNCHANGED threads
    /\ UNCHANGED handlers

(* the caller goes on after the write (app.py 801-806) *)
UpdateGraphReturn ==
    /\ call.op = "update_graph"
    /\ call' = NoCall
    /\ UNCHANGED <<now, user_tag_cooldowns, graph, tagged>>
    /\ UNCHANGED threads
    /\ UNCHANGED handlers

NextGraph == UpdateGraph \/ UpdateGraphReturn

SpecGraph == InitIdle /\ [][NextGraph]_vars

----------------------------------------------------------------------------
(* Message formatting, utils.py 751-926.  The message is the text the      *)
(* formatting call returned, or the one-user line of the simple format.    *)

NoMessage == [kind |-> "none", text |-> <<>>, user_id |-> None]

(* format_user_suggestions_simple(suggestions), 892-912 *)
format_user_suggestions_simple(suggestions) ==
    IF suggestions.kind # "set" \/ suggestions.users = <<>> THEN NoMessage
    ELSE [kind |-> "simple", text |-> <<>>, user_id |-> suggestions.users[1].user_id]

(* format_user_suggestions_with_personality(suggestions, original_message), *)
(* 751-890, and format_user_suggestions, 914-926, which calls it           *)
format_user_suggestions(suggestions, resp) ==
    IF suggestions.kind # "set" \/ suggestions.users = <<>> THEN NoMessage
    ELSE IF resp.kind = "raise" THEN format_user_suggestions_simple(suggestions)
    ELSE IF resp.status = "incomplete" /\ resp.text = <<>> THEN NoMessage
    ELSE IF Strip(resp.text) = <<>> THEN NoMessage
    ELSE [kind |-> "warm", text |-> Strip(resp.text), user_id |-> None]

----------------------------------------------------------------------------
(* SpecOwner: the cooldown tracker over time among the other functions of  *)
(* the tagging pipeline: the gate, the expander, the suggestion engine     *)
(* and the formatter run between the marks and the sweeps.                 *)

(* every user is an expert of "AI" *)
OwnerGraphs == {g \in CooldownGraphs : \A e \in g : e.rel = IS_EXPERT_IN}

InitOwner ==
    /\ now \in ClockPoints
    /\ graph \in OwnerGraphs
    /\ user_tag_cooldowns = <<>>
    /\ tagged = <<>>
    /\ call = NoCall
    /\ ThreadsIdle
    /\ HandlersIdle

GateCycle ==
    /\ call.op # "gate"
    /\ \E resp \in {RespRaise, RespText("completed", TextYES)} :
         call' = [NoCall EXCEPT
                    !.op = "gate", !.topics = <<AI>>, !.resp = resp,
                    !.ret = should_suggest_users(<<AI>>, resp)]
    /\ UNCHANGED <<now, user_tag_cooldowns, graph, tagged>>
    /\ UNCHANGED threads
    /\ UNCHANGED handlers

ExpandCycle ==
    /\ call.op # "expand"
    /\ \E resp \in {RespRaise, RespText("completed", TextAIaix)} :
         call' = [NoCall EXCEPT
                    !.op = "expand", !.topics = <<AI>>, !.resp = resp,
                    !.ret = [kind |-> "list",
                             topics |-> expand_topics_for_matching(<<AI>>, resp),
                             users |-> <<>>]]
    /\ UNCHANGED <<now, user_tag_cooldowns, graph, tagged>>
    /\ UNCHANGED threads
    /\ UNCHANGED handlers

(* format_user_suggestions on the suggestions of the recorded call *)
FormatCycle ==
    /\ call.op = "suggest"
    /\ \E resp \in {RespRaise, RespText("completed", TextBlank), RespText("completed", TextAIaix)} :
         call' = [NoCall EXCEPT
                    !.op = "format", !.resp = resp,
                    !.ret = format_user_suggestions(call.ret, resp)]
    /\ UNCHANGED <<now, user_tag_cooldowns, graph, tagged>>
    /\ UNCHANGED threads
    /\ UNCHANGED handlers

NextOwner ==
    \/ Tick
    \/ \E u \in Users : UpdateUserCooldown(u)
    \/ ClearExpiredCooldowns
    \/ SuggestCycle
    \/ GateCycle
    \/ ExpandCycle
    \/ FormatCycle

SpecOwner == InitOwner /\ [][NextOwner]_vars

----------------------------------------------------------------------------
(* SpecRace: two suggestion cycles run by two threads.  A cycle ranks the  *)
(* candidates, runs the cooldown filter of utils.py 687-702 one            *)
(* is_user_in_cooldown call at a time (each call holds cooldown_lock for   *)
(* its own body only), returns the first max_suggestions survivors, and    *)
(* its caller then marks users it returned with update_user_cooldown, one  *)
(* call per user.  The steps of the two cycles interleave freely and the   *)
(* clock may advance between any two of them.                              *)

RacePoints == {Window + d : d \in {0, 1, Window}}

CandidateIds(users) == [i \in 1..Len(users) |-> users[i].user_id]

InitRace ==
    /\ now = Window
    /\ graph \in OwnerGraphs
    /\ user_tag_cooldowns = <<>>
    /\ tagged = <<>>
    /\ call = NoCall
    /\ ThreadsIdle
    /\ HandlersIdle

RaceTick ==
    /\ \E t \in RacePoints : t > now /\ now' = t
    /\ UNCHANGED <<user_tag_cooldowns, graph, call, tagged, cycle>>
    /\ UNCHANGED threads
    /\ UNCHANGED locking
    /\ UNCHANGED dialogue
    /\ UNCHANGED surveying

(* 588-685: the call ranks and sorts the candidates *)
CycleStart(c) ==
    /\ cycle[c].pc = "idle"
    /\ \E max_suggestions \in {1, 2} :
         \E out \in suggest_relevant_users(graph, <<AI>>, "Z", max_suggestions,
                                           RespRaise, StoreOk, <<>>, now) :
            cycle' = [cycle EXCEPT ![c] =
                        [IdleCycle EXCEPT !.pc = "filter",
                                          !.max_suggestions = max_suggestions,
                                          !.sorted_users = CandidateIds(out.locals.sorted_users)]]
    /\ UNCHANGED <<now, user_tag_cooldowns, graph, call, tagged>>
    /\ UNCHANGED threads
    /\ UNCHANGED locking
    /\ UNCHANGED dialogue
    /\ UNCHANGED surveying

(* variant: the iteration keeps the user without asking the tracker *)
CycleCheck_unfiltered(c) ==
    /\ cycle[c].pc = "filter"
    /\ Len(cycle[c].checked) < Len(cycle[c].sorted_users)
    /\ LET user_id == cycle[c].sorted_users[Len(cycle[c].checked) + 1]
           check == [user |-> user_id, at |-> now,
                     after |-> {d \in Cycles : user_id \in DOMAIN cycle[d].marks}]
       IN  cycle' = [cycle EXCEPT
                       ![c].checked = Append(@, check),
                       ![c].available_users = Append(@, user_id)]
    /\ UNCHANGED <<now, user_tag_cooldowns, graph, call, tagged>>
    /\ UNCHANGED threads
    /\ UNCHANGED locking
    /\ UNCHANGED dialogue
    /\ UNCHANGED surveying

(* 690-701: one iteration of the filter loop, with its is_user_in_cooldown *)
(* call                                                                    *)
CycleCheck(c) ==
    /\ cycle[c].pc = "filter"
    /\ Len(cycle[c].checked) < Len(cycle[c].sorted_users)
    /\ LET user_id == cycle[c].sorted_users[Len(cycle[c].checked) + 1]
           check == [user |-> user_id, at |-> now,
                     after |-> {d \in Cycles : user_id \in DOMAIN cycle[d].marks}]
       IN  cycle' = [cycle EXCEPT
                       ![c].checked = Append(@, check),
                       ![c].available_users =
                           IF is_user_in_cooldown(user_tag_cooldowns, now, user_id)
                           THEN @ ELSE Append(@, user_id)]
    /\ UNCHANGED <<now, user_tag_cooldowns, graph, call, tagged>>
    /\ UNCHANGED threads
    /\ UNCHANGED locking
    /\ UNCHANGED dialogue
    /\ UNCHANGED surveying

(* 718 and 742: top_users = available_users[:max_suggestions] is returned *)
CycleReturn(c) ==
    /\ cycle[c].pc = "filter"
    /\ Len(cycle[c].checked) = Len(cycle[c].sorted_users)
    /\ cycle' = [cycle EXCEPT
                   ![c].pc = "deliver",
                   ![c].returned = Take(cycle[c].available_users, cycle[c].max_suggestions)]
    /\ UNCHANGED <<now, user_tag_cooldowns, graph, call, tagged>>
    /\ UNCHANGED threads
    /\ UNCHANGED locking
    /\ UNCHANGED dialogue
    /\ UNCHANGED surveying

(* the caller marks a user of the delivered suggestion:                    *)
(* update_user_cooldown(user_id), 73-76                                    *)
CycleMark(c) ==
    /\ cycle[c].pc = "deliver"
    /\ \E i \in 1..Len(cycle[c].returned) :
         LET user_id == cycle[c].returned[i]
         IN  /\ user_id \notin DOMAIN cycle[c].marks
             /\ user_tag_cooldowns' = CooldownPut(user_tag_cooldowns, now, user_id)
             /\ tagged' = CooldownPut(tagged, now, user_id)
             /\ cycle' = [cycle EXCEPT ![c].marks = CooldownPut(@, now, user_id)]
    /\ UNCHANGED <<now, graph, call>>
    /\ UNCHANGED threads
    /\ UNCHANGED locking
    /\ UNCHANGED dialogue
    /\ UNCHANGED surveying

(* the caller is through: the users not referenced in the delivered text   *)
(* stay unmarked                                                           *)
CycleDone(c) ==
    /\ cycle[c].pc = "deliver"
    /\ cycle' = [cycle EXCEPT ![c].pc = "done"]
    /\ UNCHANGED <<now, user_tag_cooldowns, graph, call, tagged>>
    /\ UNCHANGED threads
    /\ UNCHANGED locking
    /\ UNCHANGED dialogue
    /\ UNCHANGED surveying

NextRace ==
    \/ RaceTick
    \/ \E c \in Cycles : CycleStart(c)
    \/ \E c \in Cycles : CycleCheck(c)
    \/ \E c \in Cycles : CycleReturn(c)
    \/ \E c \in Cycles : CycleMark(c)
    \/ \E c \in Cycles : CycleDone(c)

SpecRace == InitRace /\ [][NextRace]_vars

----------------------------------------------------------------------------
(* Lock discipline, utils.py 57-133 and the functions that call into it.   *)
(* A function is the sequence of its statements that take a lock, touch a  *)
(* shared dictionary or call an external service, in program order (a      *)
(* branch of the code is taken: the statements of a skipped branch are     *)
(* left out by ending the program early, see WorkerRaise and               *)
(* WorkerReturn).                                                          *)

Acquire(lock) == [op |-> "acquire", on |-> lock]
Release(lock) == [op |-> "release", on |-> lock]
Mem(lock) == [op |-> "mem", on |-> lock]
Io(service) == [op |-> "io", on |-> service]

(* with lock: <dictionary operations> *)
With(lock) == <<Acquire(lock), Mem(lock), Release(lock)>>

(* 57-65 and 123-133: get_, set_, safe_get_ and safe_update_conversation_state *)
conversation_state_access == With("conversation_lock")
(* 67-104: is_user_in_cooldown, update_user_cooldown, get_cooldown_remaining, *)
(* get_cooldown_stats                                                      *)
cooldown_access == With("cooldown_lock")
(* 106-121: the scan and the deletions under one lock *)
clear_expired_cooldowns_steps ==
    <<Acquire("cooldown_lock"), Mem("cooldown_lock"), Mem("cooldown_lock"),
      Release("cooldown_lock")>>

(* 326-386: the state is read at 336, the table searched and written after *)
save_full_conversation_to_airtable_steps ==
    conversation_state_access \o <<Io("airtable"), Io("airtable")>>

(* 156-179: conversations_open, the read of 162, chat_postMessage *)
safe_dm_steps == <<Io("slack")>> \o conversation_state_access \o <<Io("slack")>>

(* 388-438: conversations_open, chat_postMessage, the update of 426 *)
send_dm_to_user_id_steps == <<Io("slack"), Io("slack")>> \o conversation_state_access

(* variant: the classifier is called inside the critical section that      *)
(* reads the state                                                         *)
get_openai_response_steps_callUnderLock ==
    <<Acquire("conversation_lock"), Mem("conversation_lock"), Io("classifier"),
      Mem("conversation_lock"), Release("conversation_lock")>>
        \o save_full_conversation_to_airtable_steps

(* 223-324: the reads and updates of 227-241, the classifier call of 279,  *)
(* the read and updates of 307-315, the save of 317                        *)
get_openai_response_steps ==
    conversation_state_access \o conversation_state_access \o conversation_state_access
        \o <<Io("classifier")>>
        \o conversation_state_access \o conversation_state_access \o conversation_state_access
        \o save_full_conversation_to_airtable_steps

(* 588-742: the expansion (608), the graph query (615), then for a         *)
(* candidate is_user_in_cooldown (693) and get_cooldown_remaining (694)    *)
suggest_relevant_users_steps ==
    <<Io("classifier"), Io("graph")>> \o cooldown_access \o cooldown_access

(* 135-154: say_func *)
safe_say_steps == <<Io("slack")>>

Programs ==
    {conversation_state_access, cooldown_access, clear_expired_cooldowns_steps,
     save_full_conversation_to_airtable_steps, safe_dm_steps, send_dm_to_user_id_steps,
     get_openai_response_steps, suggest_relevant_users_steps, safe_say_steps}

----------------------------------------------------------------------------
(* SpecLocks: handler threads running the functions above.                 *)

LockOwner(lock) == IF lock = "conversation_lock" THEN conversation_lock ELSE cooldown_lock

Instr(w) == worker[w].prog[worker[w].pc]
Running(w) == worker[w].prog # <<>> /\ worker[w].pc <= Len(worker[w].prog)

LocksFrame ==
    /\ UNCHANGED <<now, user_tag_cooldowns, graph, call, tagged, sweeper, probe, cycle>>
    /\ UNCHANGED dialogue
    /\ UNCHANGED surveying

(* a handler thread enters one of the functions *)
WorkerBegin(w) ==
    /\ worker[w].prog = <<>>
    /\ \E prog \in Programs : worker' = [worker EXCEPT ![w] = [IdleWorker EXCEPT !.prog = prog]]
    /\ UNCHANGED <<conversation_lock, cooldown_lock>>
    /\ LocksFrame

(* with lock: entered when no thread holds the lock *)
WorkerAcquire(w) ==
    /\ Running(w) /\ ~worker[w].in_call
    /\ Instr(w).op = "acquire"
    /\ CanAcquire(LockOwner(Instr(w).on))
    /\ conversation_lock' = IF Instr(w).on = "conversation_lock" THEN w ELSE conversation_lock
    /\ cooldown_lock' = IF Instr(w).on = "cooldown_lock" THEN w ELSE cooldown_lock
    /\ worker' = [worker EXCEPT ![w].pc = @ + 1, ![w].holds = @ \cup {Instr(w).on}]
    /\ LocksFrame

(* a dictionary operation inside the with block *)
WorkerMem(w) ==
    /\ Running(w) /\ ~worker[w].in_call
    /\ Instr(w).op = "mem"
    /\ worker' = [worker EXCEPT ![w].pc = @ + 1]
    /\ UNCHANGED <<conversation_lock, cooldown_lock>>
    /\ LocksFrame

(* the end of the with block *)
WorkerRelease(w) ==
    /\ Running(w) /\ ~worker[w].in_call
    /\ Instr(w).op = "release"
    /\ conversation_lock' = IF Instr(w).on = "conversation_lock" THEN None ELSE conversation_lock
    /\ cooldown_lock' = IF Instr(w).on = "cooldown_lock" THEN None ELSE cooldown_lock
    /\ worker' = [worker EXCEPT ![w].pc = @ + 1, ![w].holds = @ \ {Instr(w).on}]
    /\ LocksFrame

(* the request of an external call is sent *)
WorkerCall(w) ==
    /\ Running(w) /\ ~worker[w].in_call
    /\ Instr(w).op = "io"
    /\ worker' = [worker EXCEPT ![w].in_call = TRUE]
    /\ UNCHANGED <<conversation_lock, cooldown_lock>>
    /\ LocksFrame

(* the external call answers *)
WorkerAnswer(w) ==
    /\ Running(w) /\ worker[w].in_call
    /\ worker' = [worker EXCEPT ![w].in_call = FALSE, ![w].pc = @ + 1]
    /\ UNCHANGED <<conversation_lock, cooldown_lock>>
    /\ LocksFrame

(* the external call raises: the with blocks the thread is in release      *)
(* their locks and the function is left through its except clause          *)
WorkerRaise(w) ==
    /\ Running(w) /\ worker[w].in_call
    /\ conversation_lock' = IF "conversation_lock" \in worker[w].holds THEN None ELSE conversation_lock
    /\ cooldown_lock' = IF "cooldown_lock" \in worker[w].holds THEN None ELSE cooldown_lock
    /\ worker' = [worker EXCEPT ![w] = IdleWorker]
    /\ LocksFrame

(* the function returns, at its end or at a return statement between two   *)
(* of its statements                                                       *)
WorkerReturn(w) ==
    /\ worker[w].prog # <<>>
    /\ ~worker[w].in_call
    /\ worker[w].holds = {}
    /\ worker' = [worker EXCEPT ![w] = IdleWorker]
    /\ UNCHANGED <<conversation_lock, cooldown_lock>>
    /\ LocksFrame

NextLocks ==
    \E w \in Workers :
        \/ WorkerBegin(w)
        \/ WorkerAcquire(w)
        \/ WorkerMem(w)
        \/ WorkerRelease(w)
        \/ WorkerCall(w)
        \/ WorkerAnswer(w)
        \/ WorkerRaise(w)
        \/ WorkerReturn(w)

SpecLocks == InitIdle /\ [][NextLocks]_vars

----------------------------------------------------------------------------
(* Conversation state, utils.py 57-65 and 123-133.  conversation_state     *)
(* maps a user id to a dict object; a dict object holds a "step" and a     *)
(* reference to the list object of its "conversation_history" (NoRef when  *)
(* the key is absent).  Two references to one object see each other's      *)
(* mutations.                                                              *)

MaxObjects == 4
MaxHistory == 2

ObjectIds == 1..MaxObjects
DictObject(step, history) == [type |-> "dict", step |-> step, conversation_history |-> history]
ListObject(items) == [type |-> "list", items |-> items]

(* the objects a reference of roots leads to; the others are freed *)
Reachable(objs, roots) ==
    roots \cup {objs[d].conversation_history :
                  d \in {r \in roots : objs[r].type = "dict" /\ objs[r].conversation_history # NoRef}}

Collect(objs, states, v) ==
    LET roots == {states[u] : u \in DOMAIN states} \cup (IF v = NoRef THEN {} ELSE {v})
        live == Reachable(objs, roots)
    IN  [i \in live |-> objs[i]]

FreeIds(objs) == ObjectIds \ DOMAIN objs
NewId(objs) == CHOOSE i \in FreeIds(objs) : \A j \in FreeIds(objs) : i <= j

(* dict.copy(): a new dict object with the same values, the list shared *)
ShallowCopy(d) == DictObject(d.step, d.conversation_history)

StateUsers == {"U"}
Steps == {"not_started", "started"}

StateFrame ==
    /\ UNCHANGED <<now, user_tag_cooldowns, graph, tagged, cycle>>
    /\ UNCHANGED surveying
    /\ UNCHANGED threads
    /\ UNCHANGED locking

(* 57-60: return conversation_state.get(user_id, {}) *)
get_conversation_state(user_id) ==
    /\ view = NoRef
    /\ IF user_id \in DOMAIN conversation_state
       THEN /\ view' = conversation_state[user_id]
            /\ objects' = objects
       ELSE /\ FreeIds(objects) # {}
            /\ view' = NewId(objects)
            /\ objects' = objects @@ (NewId(objects) :> DictObject(None, NoRef))
    /\ call' = [op |-> "get_conversation_state", user_id |-> user_id]
    /\ UNCHANGED conversation_state
    /\ StateFrame

(* 123-126: return conversation_state.get(user_id, {}).copy() *)
safe_get_conversation_state(user_id) ==
    /\ view = NoRef
    /\ FreeIds(objects) # {}
    /\ view' = NewId(objects)
    /\ objects' = objects @@
         (NewId(objects) :> IF user_id \in DOMAIN conversation_state
                            THEN ShallowCopy(objects[conversation_state[user_id]])
                            ELSE DictObject(None, NoRef))
    /\ call' = [op |-> "safe_get_conversation_state", user_id |-> user_id]
    /\ UNCHANGED conversation_state
    /\ StateFrame

(* 128-133 with updates = {"step": step}, as at 241 and 315 *)
safe_update_step(user_id, step) ==
    LET created == user_id \notin DOMAIN conversation_state
        id == IF created THEN NewId(objects) ELSE conversation_state[user_id]
        old == IF created THEN DictObject(None, NoRef) ELSE objects[id]
    IN  /\ created => FreeIds(objects) # {}
        /\ conversation_state' = IF created THEN conversation_state @@ (user_id :> id)
                                 ELSE conversation_state
        /\ objects' = Collect((id :> [old EXCEPT !.step = step]) @@ objects,
                              conversation_state', view)
        /\ view' = view
        /\ call' = [op |-> "safe_update_conversation_state", user_id |-> user_id]
        /\ StateFrame

(* 128-133 with updates = {"conversation_history": <a list the caller      *)
(* built>}, as at 231-235 and 311                                          *)
safe_update_history(user_id, items) ==
    LET created == user_id \notin DOMAIN conversation_state
        id == IF created THEN NewId(objects) ELSE conversation_state[user_id]
        old == IF created THEN DictObject("not_started", NoRef) ELSE objects[id]
        withDict == (id :> old) @@ objects
        list == NewId(withDict)
    IN  /\ Cardinality(FreeIds(objects)) >= (IF created THEN 2 ELSE 1)
        /\ conversation_state' = IF created THEN conversation_state @@ (user_id :> id)
                                 ELSE conversation_state
        /\ objects' = Collect((id :> [old EXCEPT !.conversation_history = list])
                                  @@ (list :> ListObject(items)) @@ objects,
                              conversation_state', view)
        /\ view' = view
        /\ call' = [op |-> "safe_update_conversation_state", user_id |-> user_id]
        /\ StateFrame

(* the caller assigns a key of the dict it was given: state["step"] = ...  *)
CallerSetsStep ==
    /\ view # NoRef
    /\ \E step \in Steps :
         /\ objects[view].step # step
         /\ objects' = [objects EXCEPT ![view].step = step]
    /\ call' = [op |-> "caller_mutates", user_id |-> None]
    /\ UNCHANGED <<conversation_state, view>>
    /\ StateFrame

(* the caller appends to the conversation_history of the dict it was given *)
CallerAppends ==
    /\ view # NoRef
    /\ objects[view].conversation_history # NoRef
    /\ LET list == objects[view].conversation_history
       IN  /\ Len(objects[list].items) < MaxHistory
           /\ objects' = [objects EXCEPT ![list].items = Append(@, "message")]
    /\ call' = [op |-> "caller_mutates", user_id |-> None]
    /\ UNCHANGED <<conversation_state, view>>
    /\ StateFrame

(* the caller lets go of the dict it was given *)
CallerReturns ==
    /\ view # NoRef
    /\ view' = NoRef
    /\ objects' = Collect(objects, conversation_state, NoRef)
    /\ call' = NoCall
    /\ UNCHANGED conversation_state
    /\ StateFrame

NextState ==
    \/ \E user_id \in StateUsers : get_conversation_state(user_id)
    \/ \E user_id \in StateUsers : safe_get_conversation_state(user_id)
    \/ \E user_id \in StateUsers, step \in Steps : safe_update_step(user_id, step)
    \/ \E user_id \in StateUsers, n \in 0..1 :
         safe_update_history(user_id, [i \in 1..n |-> "message"])
    \/ CallerSetsStep
    \/ CallerAppends
    \/ CallerReturns

SpecState == InitIdle /\ [][NextState]_vars

----------------------------------------------------------------------------
(* Parsers of classifier output, nlp.py 10-136.  The output text and every *)
(* label and relationship name cut from it are Python strings: sequences   *)
(* of characters.  A parser returns a list of (label, relationship) pairs. *)

(* the string literals "MENTIONS" (69) and "IS_EXPERT_IN" (134), and the   *)
(* name WORKING_ON as a classifier writes it                               *)
MENTIONS_str == <<"M", "E", "N", "T", "I", "O", "N", "S">>
IS_EXPERT_IN_str == <<"I", "S", "_", "E", "X", "P", "E", "R", "T", "_", "I", "N">>
WORKING_ON_str == <<"W", "O", "R", "K", "I", "N", "G", "_", "O", "N">>

(* "|" in item *)
HasBar(item) == \E i \in 1..Len(item) : item[i] = "|"

(* item.split("|", 1): the text before the first "|" and all the text after it *)
SplitOnce(item) ==
    LET i == CHOOSE k \in 1..Len(item) :
                 item[k] = "|" /\ \A j \in 1..(k - 1) : item[j] # "|"
    IN  <<SubSeq(item, 1, i - 1), SubSeq(item, i + 1, Len(item))>>

(* the loop of 62-69 (topics) and of 127-134 (interests): one pair per    *)
(* piece of content.split(","), in order                                  *)
ParseItems(items, default) ==
    [i \in 1..Len(items) |->
        LET item == Strip(items[i])
        IN  IF HasBar(item)
            THEN <<Strip(SplitOnce(item)[1]), Strip(SplitOnce(item)[2])>>
            ELSE <<Strip(item), default>>]

(* what a parser call does: the list it returns, or the exception it lets out *)
ParseResult(pairs, raised) == [pairs |-> pairs, raised |-> raised]

(* nlp.py 10-90: the whole body is inside try / except Exception (28, 85) *)
extract_topics_with_relationships(resp) ==
    IF resp.kind = "raise" THEN ParseResult(<<>>, FALSE)                 \* 85-90
    ELSE IF resp.status = "incomplete" /\ resp.text = <<>>
         THEN ParseResult(<<>>, FALSE)                                   \* 51-53
    ELSE ParseResult(ParseItems(Split(Strip(resp.text), ","), MENTIONS_str), FALSE)

(* nlp.py 92-136: no try, an exception of the classifier call leaves the function *)
extract_interests_with_relationships(resp) ==
    IF resp.kind = "raise" THEN ParseResult(<<>>, TRUE)                  \* 103
    ELSE IF resp.status = "incomplete" /\ resp.text = <<>>
         THEN ParseResult(<<>>, FALSE)                                   \* 118-120
    ELSE ParseResult(ParseItems(Split(Strip(resp.text), ","), IS_EXPERT_IN_str), FALSE)

(* SpecParse: both parsers as functions of what the classifier answers.    *)
(* An output is a comma-separated line of at most MaxItems items; an item  *)
(* is a label, a label with a relationship, or a malformed piece.          *)
MaxItems == 2

(* "", " ", "AI", " ML", "AI|WORKING_ON", "ML | MENTIONS", "|WORKING_ON", "AI|" *)
ParseItemTexts ==
    {<<>>, <<" ">>, AI, <<" ">> \o ML,
     AI \o <<"|">> \o WORKING_ON_str,
     ML \o <<" ", "|", " ">> \o MENTIONS_str,
     <<"|">> \o WORKING_ON_str,
     AI \o <<"|">>}

RECURSIVE JoinComma(_)
JoinComma(items) ==
    IF items = <<>> THEN <<>>
    ELSE IF Len(items) = 1 THEN Head(items)
    ELSE Head(items) \o <<",">> \o JoinComma(Tail(items))

ParseTexts == {JoinComma(l) : l \in ListsUpTo(ParseItemTexts, MaxItems)}

ParseResps ==
    {RespRaise} \cup {RespText(st, tx) : st \in {"completed", "incomplete"}, tx \in ParseTexts}

(* extract_topics_with_relationships(text), the result recorded *)
ParseTopics ==
    /\ call = NoCall
    /\ \E resp \in ParseResps :
         call' = [NoCall EXCEPT
                    !.op = "extract_topics", !.resp = resp,
                    !.ret = extract_topics_with_relationships(resp)]
    /\ UNCHANGED <<now, user_tag_cooldowns, graph, tagged>>
    /\ UNCHANGED threads
    /\ UNCHANGED handlers

(* extract_interests_with_relationships(text), the result recorded *)
ParseInterests ==
    /\ call = NoCall
    /\ \E resp \in ParseResps :
         call' = [NoCall EXCEPT
                    !.op = "extract_interests", !.resp = resp,
                    !.ret = extract_interests_with_relationships(resp)]
    /\ UNCHANGED <<now, user_tag_cooldowns, graph, tagged>>
    /\ UNCHANGED threads
    /\ UNCHANGED handlers

NextParse == ParseTopics \/ ParseInterests

SpecParse == InitIdle /\ [][NextParse]_vars

----------------------------------------------------------------------------
(* Survey bot, app.py 61-63 and 318-621 with get_openai_response           *)
(* (utils.py 223-324, app.py 172-255).  Here conversation_state holds the  *)
(* state dicts by value, user id -> [step, conversation_history]: no       *)
(* handler keeps a reference to a dict after it returns.                   *)

(* app.py 36: os.environ.get("ADMIN_USER_IDS", "").split(",") *)
ADMIN_USER_IDS == <<"A">>

(* variant: everybody is an admin *)
is_admin_anyone(user_id) == TRUE

(* app.py 61-63 *)
is_admin(user_id) == InList(user_id, ADMIN_USER_IDS)

(* str.split(): the words between runs of whitespace *)
Words(text) == SelectSeq(Split(text, " "), LAMBDA w : w # <<>>)

TEST == <<"t", "e", "s", "t">>
ALL == <<"a", "l", "l">>

(* what the command handler does: the ephemeral response, the threads it starts *)
CommandResult(response, started) == [response |-> response, started |-> started]

(* app.py 431-548; the thread started at 545-547 runs run_survey (497-541) *)
handle_trigger_survey_command(user_id, command_text) ==
    IF ~is_admin(user_id) THEN CommandResult("access_denied", <<>>)          \* 439-444
    ELSE LET text == Strip(command_text)
             args == Words(text)
         IN  IF text = <<>> THEN CommandResult("usage", <<>>)                \* 449-460
             ELSE IF Len(args) < 2 THEN CommandResult("invalid_arguments", <<>>)
             ELSE IF Lower(args[2]) \notin {TEST, ALL}
                  THEN CommandResult("invalid_mode", <<>>)                   \* 477-482
             ELSE CommandResult("triggering",
                                <<[by |-> user_id, table_id |-> args[1],
                                   test_mode |-> (Lower(args[2]) = TEST)]>>)

(* the dict of one user *)
StateDict(step, history) == [step |-> step, conversation_history |-> history]

(* d[k] = v on a dict held as a function *)
DictSet(d, k, v) == [x \in DOMAIN d \cup {k} |-> IF x = k THEN v ELSE d[x]]

(* app.py 318-371, utils.py 388-438: after the invitation is posted the    *)
(* user's dict is updated with step "not_started" and an empty history     *)
(* (app.py 355-365, utils.py 425-432); a Slack error skips the update      *)
send_dm_to_user_id(cs, user_id, delivered) ==
    IF delivered THEN DictSet(cs, user_id, StateDict("not_started", <<>>)) ELSE cs

(* the loop of app.py 409-425: every user of the table in order *)
RECURSIVE NotifyLoop(_, _, _, _)
NotifyLoop(cs, user_ids, failing, sent) ==
    IF user_ids = <<>> THEN [cs |-> cs, sent |-> sent]
    ELSE LET user_id == Head(user_ids)
             delivered == user_id \notin failing
         IN  NotifyLoop(send_dm_to_user_id(cs, user_id, delivered), Tail(user_ids), failing,
                        IF delivered THEN Append(sent, user_id) ELSE sent)

(* app.py 373-428: test mode invites the first user of the table only *)
notify_users_in_table(cs, user_ids, test_mode, failing) ==
    IF user_ids = <<>> THEN [cs |-> cs, sent |-> <<>>]                       \* 389-391
    ELSE IF test_mode THEN NotifyLoop(cs, <<Head(user_ids)>>, failing, <<>>) \* 395-404
    ELSE NotifyLoop(cs, user_ids, failing, <<>>)

(* the messages that are not recorded (utils.py 265) *)
TriggerMessages == {"Please ask the first question", "start survey"}

(* what a get_openai_response call does: the state it leaves, the message  *)
(* it returns, whether it called the language model                        *)
ResponseResult(cs, ret, model_called) == [cs |-> cs, ret |-> ret, model_called |-> model_called]

(* variant: a user who has not started is answered by the language model *)
get_openai_response_anyStep(cs, user_id, user_message, timed_out, reply) ==
    LET known == IF user_id \in DOMAIN cs THEN cs
                 ELSE DictSet(cs, user_id, StateDict("not_started", <<>>))
        state == known[user_id]
        bot_response == IF reply = "blank" THEN "retry_notice" ELSE reply
        recorded == Append(Append(state.conversation_history, <<"user", user_message>>),
                           <<"assistant", bot_response>>)
    IN  IF state.step = "completed" THEN ResponseResult(known, "complete_notice", FALSE)
        ELSE IF reply = "raise" THEN ResponseResult(known, "trouble_notice", TRUE)
        ELSE ResponseResult(DictSet(known, user_id, StateDict(state.step, recorded)),
                            bot_response, TRUE)

(* utils.py 223-324 (app.py 172-255).  reply is what the language model    *)
(* does: "question" (a text), "blank" (an empty text), "closing" (a text   *)
(* with both phrases tested at 314) or "raise".                            *)
get_openai_response(cs, user_id, user_message, timed_out, reply) ==
    LET known == IF user_id \in DOMAIN cs THEN cs                           \* 227-236
                 ELSE DictSet(cs, user_id, StateDict("not_started", <<>>))
        state == known[user_id]
        bot_response == IF reply = "blank" THEN "retry_notice" ELSE reply   \* 302-303
        recorded ==                                                         \* 306-311
            IF user_message \in TriggerMessages THEN state.conversation_history
            ELSE Append(Append(state.conversation_history, <<"user", user_message>>),
                        <<"assistant", bot_response>>)
        step == IF bot_response = "closing" THEN "completed" ELSE state.step \* 314-315
    IN  IF state.step = "started" /\ timed_out                              \* 239-243
        THEN ResponseResult(DictSet(known, user_id,
                                    StateDict("completed", state.conversation_history)),
                            "timed_out_notice", FALSE)
        ELSE IF state.step = "completed"                                    \* 246-247
             THEN ResponseResult(known, "complete_notice", FALSE)
        ELSE IF state.step = "not_started"                                  \* 250-251
             THEN ResponseResult(known, "use_button_notice", FALSE)
        ELSE IF reply = "raise"                                             \* 322-324
             THEN ResponseResult(known, "trouble_notice", TRUE)
        ELSE ResponseResult(DictSet(known, user_id, StateDict(step, recorded)),
                            bot_response, TRUE)

(* app.py 551-621: a click on the start button of the invitation *)
handle_survey_start_button(cs, user_id, reply) ==
    LET known == IF user_id \in DOMAIN cs THEN cs                           \* 563-573
                 ELSE DictSet(cs, user_id, StateDict("not_started", <<>>))
        state == known[user_id]
        started == DictSet(known, user_id,                                  \* 594-595
                           StateDict("started", state.conversation_history))
    IN  IF state.step = "completed"                                         \* 576-591
        THEN ResponseResult(known, "already_completed", FALSE)
        ELSE get_openai_response(started, user_id, "Please ask the first question",
                                 FALSE, reply)                              \* 599

(* SpecSurvey: commands, background survey threads, button clicks and      *)
(* direct messages, one handler at a time.                                 *)
MaxThreads == 1        \* background survey threads started and not yet run
MaxTurns == 2          \* exchanges recorded in one conversation_history

SlackUsers == {"A", "U"}
Replies == {"question", "blank", "closing", "raise"}

(* "", " ", "t", "t test", "t ALL", "t x", " t  all " *)
CommandTexts ==
    {<<>>, <<" ">>, <<"t">>, <<"t", " ">> \o TEST, <<"t", " ", "A", "L", "L">>,
     <<"t", " ", "x">>, <<" ", "t", " ", " ">> \o ALL \o <<" ">>}

(* the Slack users a table of Airtable lists *)
Tables == {<<>>, <<"U">>, <<"U", "A">>}

SurveyFrame ==
    /\ UNCHANGED <<now, user_tag_cooldowns, graph, tagged, cycle, objects, view, turn>>
    /\ UNCHANGED threads
    /\ UNCHANGED locking

SurveyCall(op, user_id, text, r) ==
    [op |-> op, user_id |-> user_id, text |-> text, before |-> conversation_state,
     ret |-> r.ret, model_called |-> r.model_called, started |-> <<>>, sent |-> <<>>]

(* /trigger-survey by any user with any text *)
TriggerSurvey ==
    /\ call = NoCall
    /\ \E user_id \in SlackUsers, text \in CommandTexts :
         LET r == handle_trigger_survey_command(user_id, text)
         IN  /\ Len(run_survey) + Len(r.started) <= MaxThreads
             /\ run_survey' = run_survey \o r.started
             /\ call' = [op |-> "trigger_survey", user_id |-> user_id, text |-> text,
                         before |-> conversation_state, ret |-> r.response,
                         model_called |-> FALSE, started |-> r.started, sent |-> <<>>]
    /\ UNCHANGED <<conversation_state, dm_log>>
    /\ SurveyFrame

(* a background thread runs run_survey: the table is read, the invitations sent *)
RunSurvey ==
    /\ call = NoCall
    /\ run_survey # <<>>
    /\ \E user_ids \in Tables, failing \in SUBSET SlackUsers :
         LET job == Head(run_survey)
             r == notify_users_in_table(conversation_state, user_ids, job.test_mode, failing)
         IN  /\ conversation_state' = r.cs
             /\ dm_log' = dm_log \cup {[to |-> r.sent[i], by |-> job.by] : i \in 1..Len(r.sent)}
             /\ call' = [op |-> "run_survey", user_id |-> job.by, text |-> job.table_id,
                         before |-> conversation_state, ret |-> Len(r.sent),
                         model_called |-> FALSE, started |-> <<>>, sent |-> r.sent]
    /\ run_survey' = Tail(run_survey)
    /\ SurveyFrame

(* a click on the start button *)
StartButton ==
    /\ call = NoCall
    /\ \E user_id \in SlackUsers, reply \in Replies :
         LET r == handle_survey_start_button(conversation_state, user_id, reply)
         IN  /\ conversation_state' = r.cs
             /\ call' = SurveyCall("start_survey_button", user_id, None, r)
    /\ UNCHANGED <<run_survey, dm_log>>
    /\ SurveyFrame

(* a direct message of a user, answered by get_openai_response *)
DirectMessage ==
    /\ call = NoCall
    /\ \E user_id \in SlackUsers, user_message \in {"hello", "start survey"},
          timed_out \in BOOLEAN, reply \in Replies :
         LET r == get_openai_response(conversation_state, user_id, user_message,
                                      timed_out, reply)
         IN  /\ Len(r.cs[user_id].conversation_history) <= 2 * MaxTurns
             /\ conversation_state' = r.cs
             /\ call' = SurveyCall("get_openai_response", user_id, user_message, r)
    /\ UNCHANGED <<run_survey, dm_log>>
    /\ SurveyFrame

(* the handler returns *)
HandlerReturn ==
    /\ call # NoCall
    /\ call' = NoCall
    /\ UNCHANGED <<conversation_state, run_survey, dm_log>>
    /\ SurveyFrame

NextSurvey ==
    \/ TriggerSurvey
    \/ RunSurvey
    \/ StartButton
    \/ DirectMessage
    \/ HandlerReturn

SpecSurvey == InitIdle /\ [][NextSurvey]_vars

----------------------------------------------------------------------------
(* SpecTurns: two get_openai_response calls (utils.py 223-324) for one     *)
(* user, interleaved at the grain of the function's accesses to            *)
(* conversation_state.  Each access is one `with conversation_lock:` block *)
(* (123-133) whose body makes no call, so it is one step; the lock is free *)
(* between the steps.  The two calls handle different messages: the        *)
(* message of call t is written t.                                         *)

TurnUser == "U"
WritesSoFar == Cardinality({t \in Turns : turn[t].wrote_at > 0})

TurnFrame ==
    /\ UNCHANGED <<now, user_tag_cooldowns, graph, call, tagged, cycle, objects, view>>
    /\ UNCHANGED <<run_survey, dm_log>>
    /\ UNCHANGED threads
    /\ UNCHANGED locking

(* A conversation is under way or has not begun *)
InitTurns ==
    /\ now = Window
    /\ graph = {}
    /\ user_tag_cooldowns = <<>>
    /\ tagged = <<>>
    /\ call = NoCall
    /\ ThreadsIdle
    /\ cycle = [c \in Cycles |-> IdleCycle]
    /\ conversation_lock = None
    /\ worker = [w \in Workers |-> IdleWorker]
    /\ conversation_state \in
         {<<>>} \cup
         {DictSet(<<>>, TurnUser, StateDict("started", h)) :
            h \in {<<>>, <<<<"user", "earlier">>, <<"assistant", "question">>>>}}
    /\ objects = <<>>
    /\ view = NoRef
    /\ run_survey = <<>>
    /\ dm_log = {}
    /\ turn = [t \in Turns |-> IdleTurn]

(* a handler thread enters get_openai_response(user_id, user_message) *)
TurnBegin(t) ==
    /\ turn[t].pc = "idle"
    /\ \E user_message \in {t, "start survey"} :
         turn' = [turn EXCEPT ![t] = [IdleTurn EXCEPT !.pc = "get", !.user_id = TurnUser,
                                                      !.user_message = user_message]]
    /\ UNCHANGED conversation_state
    /\ TurnFrame

(* 227 and 236: state = safe_get_conversation_state(user_id) *)
TurnGet(t) ==
    /\ turn[t].pc = "get"
    /\ CanAcquire(conversation_lock)
    /\ LET state == IF turn[t].user_id \in DOMAIN conversation_state
                    THEN conversation_state[turn[t].user_id] ELSE <<>>
       IN  turn' = [turn EXCEPT ![t].state = state,
                                ![t].pc = IF state = <<>> THEN "init" ELSE "check"]
    /\ UNCHANGED conversation_state
    /\ TurnFrame

(* 230-235: the state of a new user *)
TurnInit(t) ==
    /\ turn[t].pc = "init"
    /\ CanAcquire(conversation_lock)
    /\ conversation_state' =
         DictSet(conversation_state, turn[t].user_id,
                 StateDict("not_started", <<>>))
    /\ turn' = [turn EXCEPT ![t].pc = "get"]
    /\ TurnFrame

(* 239-251: the timed-out survey is completed; a survey that is completed  *)
(* or not started is answered with the fixed message                      *)
TurnCheck(t) ==
    /\ turn[t].pc = "check"
    /\ CanAcquire(conversation_lock)
    /\ \E timed_out \in BOOLEAN :
         IF turn[t].state.step = "started" /\ timed_out
         THEN /\ conversation_state' =
                   [conversation_state EXCEPT ![turn[t].user_id].step = "completed"]
              /\ turn' = [turn EXCEPT ![t].pc = "done"]
         ELSE /\ conversation_state' = conversation_state
              /\ turn' = [turn EXCEPT ![t].pc = IF turn[t].state.step = "started"
                                                 THEN "call" ELSE "done"]
    /\ TurnFrame

(* 278-303 and 322-324: the language model answers or the call raises *)
TurnCall(t) ==
    /\ turn[t].pc = "call"
    /\ \E reply \in Replies :
         turn' = [turn EXCEPT
                    ![t].bot_response = IF reply = "blank" THEN "retry_notice" ELSE reply,
                    ![t].pc = IF reply = "raise" THEN "done"
                              ELSE IF turn[t].user_message \in TriggerMessages THEN "finish"
                              ELSE "read"]
    /\ UNCHANGED conversation_state
    /\ TurnFrame

(* variant: the history is taken from the state read at 227 *)
TurnRead_stale(t) ==
    /\ turn[t].pc = "read"
    /\ CanAcquire(conversation_lock)
    /\ turn' = [turn EXCEPT ![t].current_state = turn[t].state,
                            ![t].read_at = WritesSoFar,
                            ![t].pc = "write"]
    /\ UNCHANGED conversation_state
    /\ TurnFrame

(* 307: current_state = safe_get_conversation_state(user_id) *)
TurnRead(t) ==
    /\ turn[t].pc = "read"
    /\ CanAcquire(conversation_lock)
    /\ turn' = [turn EXCEPT ![t].current_state = conversation_state[turn[t].user_id],
                            ![t].read_at = WritesSoFar,
                            ![t].pc = "write"]
    /\ UNCHANGED conversation_state
    /\ TurnFrame

(* 308-311: the copy of the history that was read, with the exchange       *)
(* appended, replaces the stored history                                   *)
TurnWrite(t) ==
    /\ turn[t].pc = "write"
    /\ CanAcquire(conversation_lock)
    /\ conversation_state' =
         [conversation_state EXCEPT ![turn[t].user_id].conversation_history =
            Append(Append(turn[t].current_state.conversation_history,
                          <<"user", turn[t].user_message>>),
                   <<"assistant", turn[t].bot_response>>)]
    /\ turn' = [turn EXCEPT ![t].wrote_at = WritesSoFar + 1, ![t].pc = "finish"]
    /\ TurnFrame

(* 313-320: the closing answer completes the survey; the answer is returned *)
TurnFinish(t) ==
    /\ turn[t].pc = "finish"
    /\ CanAcquire(conversation_lock)
    /\ conversation_state' =
         IF turn[t].bot_response = "closing"
         THEN [conversation_state EXCEPT ![turn[t].user_id].step = "completed"]
         ELSE conversation_state
    /\ turn' = [turn EXCEPT ![t].pc = "done"]
    /\ TurnFrame

NextTurns ==
    \/ \E t \in Turns : TurnBegin(t)
    \/ \E t \in Turns : TurnGet(t)
    \/ \E t \in Turns : TurnInit(t)
    \/ \E t \in Turns : TurnCheck(t)
    \/ \E t \in Turns : TurnCall(t)
    \/ \E t \in Turns : TurnRead(t)
    \/ \E t \in Turns : TurnWrite(t)
    \/ \E t \in Turns : TurnFinish(t)

SpecTurns == InitTurns /\ [][NextTurns]_vars

----------------------------------------------------------------------------
(* Properties of the suggestion engine, checked on the recorded call *)

Returned == call.ret.users
Candidates == call.locals.sorted_users

UserIds(s) == [i \in 1..Len(s) |-> s[i].user_id]

(* positions of the sorted candidate list whose user is in cooldown when  *)
(* the filter runs                                                         *)
Suppressed ==
    {i \in 1..Len(Candidates) :
        is_user_in_cooldown(user_tag_cooldowns, call.at, Candidates[i].user_id)}

(* the j-th candidate, in sorted order, that is not in cooldown *)
IsSurvivor(i, j) ==
    /\ i \in (1..Len(Candidates)) \ Suppressed
    /\ Cardinality({h \in 1..i : h \notin Suppressed}) = j

(* The scenario of the specification: A expert (5), B working (9),        *)
(* C expert (2), all on the one topic.                                     *)
ScenarioGraph ==
    {[user |-> "A", rel |-> IS_EXPERT_IN, topic |-> AI, count |-> 5, last |-> 1],
     [user |-> "B", rel |-> WORKING_ON, topic |-> AI, count |-> 9, last |-> 1],
     [user |-> "C", rel |-> IS_EXPERT_IN, topic |-> AI, count |-> 2, last |-> 1]}

ScenarioCall(S) ==
    /\ call.op = "suggest"
    /\ graph = ScenarioGraph
    /\ call.max_suggestions = 2
    /\ {u \in Users : is_user_in_cooldown(user_tag_cooldowns, call.at, u)} = S

(* C1: trickle-down capacity.  When fewer than all N sorted candidates are *)
(* in cooldown, the call returns exactly min(max_suggestions, N - |S|)     *)
(* users, and the j-th returned user is the j-th candidate of the sorted   *)
(* list that is not in cooldown; in the scenario with A in cooldown the    *)
(* result is [C, B].                                                       *)
C1_TrickleDown ==
    call.op = "suggest" =>
      /\ Cardinality(Suppressed) < Len(Candidates) =>
           /\ call.ret.kind = "set"
           /\ Len(Returned) =
                Min(call.max_suggestions, Len(Candidates) - Cardinality(Suppressed))
           /\ \A j \in 1..Len(Returned) :
                \E i \in 1..Len(Candidates) : IsSurvivor(i, j) /\ Returned[j] = Candidates[i]
      /\ ScenarioCall({"A"}) => UserIds(Returned) = <<"C", "B">>

C1_Witness ==
    /\ call.op = "suggest"
    /\ Len(Candidates) = 3
    /\ 1 \in Suppressed
    /\ Cardinality(Suppressed) = 1
    /\ call.max_suggestions = 2
    /\ Len(Returned) = 2

(* C2 as claimed: candidates exist and all are in cooldown, and the call   *)
(* returns none.                                                           *)
C2_NoneWhenAllInCooldown ==
    (/\ call.op = "suggest"
     /\ Len(Candidates) > 0
     /\ Cardinality(Suppressed) = Len(Candidates)) => call.ret.kind = "none"

(* C2 amended: candidates exist and all are in cooldown, and the call      *)
(* returns a suggestion set with the canonical topics and an empty user    *)
(* list; none is returned only when the ranker's mapping is empty.         *)
C2_EmptySetWhenAllInCooldown ==
    call.op = "suggest" =>
      /\ (Len(Candidates) > 0 /\ Cardinality(Suppressed) = Len(Candidates)) =>
           /\ call.ret.kind = "set"
           /\ call.ret.users = <<>>
           /\ call.ret.topics = call.topics
      /\ call.ret.kind = "none" => call.locals.relevant_users = <<>>

C2_Witness ==
    /\ call.op = "suggest"
    /\ Len(Candidates) >= 2
    /\ Cardinality(Suppressed) = Len(Candidates)
    /\ call.ret.kind = "set"

(* C4 as claimed: in the returned order every IS_EXPERT_IN candidate comes *)
(* before every WORKING_ON one, WORKING_ON before INTERESTED_IN,           *)
(* INTERESTED_IN before MENTIONS, and inside one tier the activity level   *)
(* decreases.                                                              *)
C4_PriorityOrdering ==
    call.op = "suggest" =>
      \A i, j \in 1..Len(Returned) : i < j =>
        /\ QueryPriority(Returned[i].best_relationship)
             <= QueryPriority(Returned[j].best_relationship)
        /\ Returned[i].best_relationship = Returned[j].best_relationship
             => Returned[i].activity_level >= Returned[j].activity_level

(* C5: tier dominates activity.  No WORKING_ON candidate is returned       *)
(* before an IS_EXPERT_IN one whatever their activity levels, candidates   *)
(* of one tier are returned by decreasing activity level, and the          *)
(* scenario with nobody in cooldown gives [A, C].                          *)
C5_TierDominatesActivity ==
    call.op = "suggest" =>
      /\ \A i, j \in 1..Len(Returned) : i < j =>
           /\ ~(/\ Returned[i].best_relationship = WORKING_ON
                /\ Returned[j].best_relationship = IS_EXPERT_IN)
           /\ Returned[i].best_relationship = Returned[j].best_relationship
                => Returned[i].activity_level >= Returned[j].activity_level
      /\ ScenarioCall({}) => UserIds(Returned) = <<"A", "C">>

C5_Witness ==
    /\ call.op = "suggest"
    /\ \E i, j \in 1..Len(Returned) :
         /\ i < j
         /\ Returned[i].best_relationship = IS_EXPERT_IN
         /\ Returned[j].best_relationship = WORKING_ON
         /\ Returned[j].activity_level > Returned[i].activity_level
    /\ \E i, j \in 1..Len(Returned) :
         /\ i < j
         /\ Returned[i].best_relationship = Returned[j].best_relationship
         /\ Returned[i].activity_level > Returned[j].activity_level

(* the highest-priority relationship type among the edges of a candidate *)
BestOfEdges(c) ==
    CHOOSE r \in {c.relationships[i].relationship : i \in 1..Len(c.relationships)} :
      \A i \in 1..Len(c.relationships) :
         QueryPriority(r) <= QueryPriority(c.relationships[i].relationship)

(* C6 as claimed: best_relationship of every candidate is the highest-     *)
(* priority relationship type among all edges matched for that user.       *)
C6_BestRelationship ==
    call.op = "suggest" =>
      \A i \in 1..Len(Candidates) :
         Candidates[i].best_relationship = BestOfEdges(Candidates[i])

RECURSIVE SumActivity(_)
SumActivity(rels) ==
    IF rels = <<>> THEN 0 ELSE Head(rels).activity_level + SumActivity(Tail(rels))

(* C7 as claimed: the activity level a candidate is sorted by is the sum   *)
(* of the activity levels of all edges matched for that user.              *)
C7_AccumulatedActivity ==
    call.op = "suggest" =>
      \A i \in 1..Len(Candidates) :
         Candidates[i].activity_level = SumActivity(Candidates[i].relationships)

(* C3: cooldown suppression in sequential use.  No user returned by a    *)
(* call was marked tagged less than USER_TAG_COOLDOWN before the call's    *)
(* cooldown filter ran.                                                    *)
C3_CooldownSuppression ==
    call.op = "suggest" =>
      \A i \in 1..Len(Returned) :
         Returned[i].user_id \in DOMAIN tagged =>
            ~(call.at - tagged[Returned[i].user_id] < Window)

C3_Witness ==
    /\ call.op = "suggest"
    /\ \E i \in 1..Len(Candidates) :
         /\ Candidates[i].user_id \in DOMAIN tagged
         /\ call.at - tagged[Candidates[i].user_id] < Window
         /\ ~InList(Candidates[i], Returned)
    /\ \E i \in 1..Len(Returned) : Returned[i].user_id \in DOMAIN tagged

(* the topics of the mapping returned by get_relevant_users_for_topics *)
RankedTopics ==
    {call.locals.relevant_users[i].topic : i \in 1..Len(call.locals.relevant_users)}

(* C8 as claimed: when the query of one expanded topic fails, the mapping *)
(* returned by get_relevant_users_for_topics still holds the results of   *)
(* every topic whose query succeeded with at least one row.                *)
C8_PerTopicIsolation ==
    (call.op = "suggest" /\ call.env.driver_ok) =>
      \A i \in 1..Len(call.locals.expanded_topics) :
         LET topic == call.locals.expanded_topics[i]
         IN  (/\ topic \notin call.env.fail
              /\ call.max_suggestions > 0
              /\ QueryMatch(graph, topic, call.exclude_user_id) # {})
             => topic \in RankedTopics

(* C9: fail-closed suggestion.  The call never ends with an exception; it *)
(* returns none when the store is unavailable and when the query of every *)
(* expanded topic fails; every user it returns holds an edge of the graph *)
(* to an expanded topic and is not the excluded user.                      *)
C9_FailClosed ==
    call.op = "suggest" =>
      /\ call.ret.kind # "raise"
      /\ ~call.env.driver_ok => call.ret.kind = "none"
      /\ (\A i \in 1..Len(call.locals.expanded_topics) :
             call.locals.expanded_topics[i] \in call.env.fail) => call.ret.kind = "none"
      /\ \A i \in 1..Len(Returned) :
            /\ Returned[i].user_id # call.exclude_user_id
            /\ \E e \in graph :
                 /\ e.user = Returned[i].user_id
                 /\ InList(e.topic, call.locals.expanded_topics)

C9_Witness ==
    /\ call.op = "suggest"
    /\ ~call.env.driver_ok
    /\ \E e \in graph : e.topic = AI /\ e.user # call.exclude_user_id
    /\ call.exclude_user_id # None
    /\ call.max_suggestions > 0
    /\ call.ret.kind = "none"

(* C10 as claimed: a user is in cooldown iff the map holds an entry for   *)
(* the user and less than USER_TAG_COOLDOWN has passed since; a user      *)
(* without entry is not in cooldown at any clock value.                    *)
C10_InCooldownIffRecentEntry ==
    \A u \in Users :
       is_user_in_cooldown(user_tag_cooldowns, now, u)
         <=> (u \in DOMAIN user_tag_cooldowns /\ now - user_tag_cooldowns[u] < Window)

----------------------------------------------------------------------------
(* Properties of the cooldown tracker *)

(* C11: marking is an idempotent re-stamp.  A user marked at the present   *)
(* clock reading has an entry, is in cooldown and has USER_TAG_COOLDOWN    *)
(* seconds remaining; marking any user in any reachable state gives that   *)
(* user the present stamp, leaves every other entry as it was, and marking *)
(* once more without clock advance changes nothing.                        *)
C11_IdempotentRestamp ==
    /\ \A u \in DOMAIN tagged :
         tagged[u] = now =>
           /\ u \in DOMAIN user_tag_cooldowns
           /\ is_user_in_cooldown(user_tag_cooldowns, now, u)
           /\ get_cooldown_remaining(user_tag_cooldowns, now, u) = USER_TAG_COOLDOWN
    /\ \A u \in Users :
         LET once == CooldownPut(user_tag_cooldowns, now, u)
             twice == CooldownPut(once, now, u)
         IN  /\ twice = once
             /\ DOMAIN once = (DOMAIN user_tag_cooldowns) \cup {u}
             /\ is_user_in_cooldown(once, now, u)
             /\ get_cooldown_remaining(once, now, u) = USER_TAG_COOLDOWN
             /\ \A v \in (DOMAIN user_tag_cooldowns) \ {u} : once[v] = user_tag_cooldowns[v]

C11_Witness ==
    \E u, v \in DOMAIN user_tag_cooldowns :
       /\ u # v
       /\ now > Window
       /\ tagged[u] = now
       /\ user_tag_cooldowns[u] = now
       /\ user_tag_cooldowns[v] < now
       /\ get_cooldown_remaining(user_tag_cooldowns, now, u) = USER_TAG_COOLDOWN

(* C12 as claimed: in every state where a user has an entry and is no      *)
(* longer in cooldown, the sweep deletes that entry.                       *)
C12_SweepRemovesEveryExpired ==
    \A u \in DOMAIN user_tag_cooldowns :
       ~is_user_in_cooldown(user_tag_cooldowns, now, u)
          => u \notin DOMAIN CooldownSweep(user_tag_cooldowns, now)

(* C12 amended: once strictly more than the window has passed since the    *)
(* stamp, the user is not in cooldown and the sweep deletes the entry; at  *)
(* exactly one window the user is not in cooldown and the sweep keeps the  *)
(* entry; no entry was ever deleted before its window had strictly passed. *)
C12_SweepRemovesStrictlyExpired ==
    /\ \A u \in DOMAIN user_tag_cooldowns :
         LET age == now - user_tag_cooldowns[u]
             swept == CooldownSweep(user_tag_cooldowns, now)
         IN  /\ age > Window =>
                  ~is_user_in_cooldown(user_tag_cooldowns, now, u) /\ u \notin DOMAIN swept
             /\ age = Window =>
                  /\ ~is_user_in_cooldown(user_tag_cooldowns, now, u)
                  /\ u \in DOMAIN swept
                  /\ swept[u] = user_tag_cooldowns[u]
    /\ \A u \in (DOMAIN tagged) \ (DOMAIN user_tag_cooldowns) : now - tagged[u] > Window

C12_Witness ==
    \E u, v \in DOMAIN tagged :
       /\ u \notin DOMAIN user_tag_cooldowns
       /\ now - tagged[u] > Window
       /\ v \in DOMAIN user_tag_cooldowns
       /\ now - user_tag_cooldowns[v] = Window

(* C13: sweep safety under concurrency.  In every interleaving of sweeps,  *)
(* marks and cooldown checks, a sweep that has done its deletions leaves   *)
(* exactly the entries the map held when the sweep took the lock minus     *)
(* those older than the window at the sweep's clock reading (so a sweep    *)
(* that finds none is a no-op); no sweep fails; and every user marked      *)
(* within the last window still has the entry of that mark.                *)
C13_SweepSafety ==
    /\ \A s \in Sweepers :
         /\ sweeper[s].pc # "raised"
         /\ sweeper[s].pc = "done" =>
              LET before == sweeper[s].before
                  kept == {u \in DOMAIN before : ~(sweeper[s].now - before[u] > Window)}
              IN  user_tag_cooldowns = [u \in kept |-> before[u]]
    /\ \A u \in DOMAIN tagged :
         now - tagged[u] <= Window =>
            u \in DOMAIN user_tag_cooldowns /\ user_tag_cooldowns[u] = tagged[u]

C13_Witness ==
    \E s \in Sweepers, u, v \in MarkedUsers :
       /\ sweeper[s].pc = "done"
       /\ u \in DOMAIN sweeper[s].before
       /\ u \notin DOMAIN user_tag_cooldowns
       /\ v \in DOMAIN user_tag_cooldowns
       /\ now > sweeper[s].now
       /\ now - tagged[v] < Window

----------------------------------------------------------------------------
(* Properties of the topic expander, checked on the recorded call *)

Expanded == call.ret.topics

(* the four paths of the expander *)
OnExceptionPath == call.resp.kind = "raise"
OnTruncatedNoOutputPath ==
    call.resp.kind = "response" /\ call.resp.status = "incomplete" /\ call.resp.text = <<>>
OnPartialOutputPath ==
    call.resp.kind = "response" /\ call.resp.status = "incomplete" /\ call.resp.text # <<>>
OnFullResponsePath == call.resp.kind = "response" /\ call.resp.status = "completed"

(* C14: expansion superset.  Every canonical topic is an element of the    *)
(* expanded list, on the full-response path, the partial-output path, the  *)
(* truncated-without-output path and the exception path.                   *)
C14_ExpansionSuperset ==
    call.op = "expand" =>
      /\ OnExceptionPath \/ OnTruncatedNoOutputPath \/ OnPartialOutputPath \/ OnFullResponsePath
      /\ \A i \in 1..Len(call.topics) : InList(call.topics[i], Expanded)

C14_Witness ==
    /\ call.op = "expand"
    /\ OnFullResponsePath
    /\ call.resp.text = TextAIaix
    /\ call.topics = <<ML>>
    /\ Len(Expanded) = 3
    /\ InList(ML, Expanded)

(* C15 as claimed: when the classifier call raises, returns empty output   *)
(* or is truncated with no output, the expanded list is the canonical list *)
(* unchanged, same elements in the same order.                             *)
C15_DegradesToIdentity ==
    (/\ call.op = "expand"
     /\ \/ OnExceptionPath
        \/ OnTruncatedNoOutputPath
        \/ call.resp.kind = "response" /\ call.resp.text = <<>>)
    => Expanded = call.topics

(* the classifier's output cut at every '|' and ',', each piece trimmed *)
RECURSIVE RawTerms(_, _)
RawTerms(text, cur) ==
    IF text = <<>> THEN <<Strip(cur)>>
    ELSE IF Head(text) \in {"|", ","} THEN <<Strip(cur)>> \o RawTerms(Tail(text), <<>>)
    ELSE RawTerms(Tail(text), Append(cur, Head(text)))

OutputTerms == RawTerms(call.resp.text, <<>>)
OutputTermSet == {OutputTerms[i] : i \in 1..Len(OutputTerms)} \ {<<>>}

FirstPos(x, l) == CHOOSE i \in 1..Len(l) : l[i] = x /\ \A j \in 1..(i - 1) : l[j] # x

----------------------------------------------------------------------------
(* Properties of the suggestion engine over the graph store *)

(* the edges of the store to an expanded topic, the excluded user's aside *)
RelatedEdges(topic) ==
    {e \in graph : e.topic = topic /\ e.user # call.exclude_user_id}

(* the users related to the expanded topics that are outside cooldown *)
AvailableRelated ==
    {u \in Users :
       /\ \E i \in 1..Len(call.locals.expanded_topics) :
             \E e \in RelatedEdges(call.locals.expanded_topics[i]) : e.user = u
       /\ ~is_user_in_cooldown(user_tag_cooldowns, call.at, u)}

TopicsMatch(canonical, found_topic) ==
    \/ IsSubstring(Lower(canonical), Lower(found_topic))
    \/ IsSubstring(Lower(found_topic), Lower(canonical))

MatchingPositions(found_topic) ==
    {i \in 1..Len(call.topics) : TopicsMatch(call.topics[i], found_topic)}

FirstMatching(found_topic) ==
    call.topics[CHOOSE i \in MatchingPositions(found_topic) :
                   \A j \in MatchingPositions(found_topic) : i <= j]

(* C18: canonical mapping tie-break.  Every edge the ranker returned for   *)
(* an expanded topic that matches some canonical topic is recorded, in its *)
(* user's candidate, under the first canonical topic of the input order    *)
(* that matches; when several match, the earlier one is recorded.          *)
C18_FirstCanonicalWins ==
    call.op = "suggest" =>
      \A k \in 1..Len(call.locals.relevant_users) :
         LET found == call.locals.relevant_users[k]
         IN  MatchingPositions(found.topic) # {} =>
               \A r \in 1..Len(found.users) :
                  \E i \in 1..Len(Candidates) :
                     /\ Candidates[i].user_id = found.users[r].user_id
                     /\ InList(FirstMatching(found.topic), Candidates[i].topics)
                     /\ InList([topic |-> FirstMatching(found.topic),
                                relationship |-> found.users[r].relationship,
                                activity_level |-> found.users[r].activity_level],
                               Candidates[i].relationships)

C18_Witness ==
    /\ call.op = "suggest"
    /\ call.topics = <<AI, AIX>>
    /\ \A e \in graph : e.topic = AIX
    /\ Len(Returned) = 2
    /\ \A i \in 1..Len(Returned) : Returned[i].topics = <<AI>>

(* C19 as claimed: every topic recorded in a returned candidate's topic    *)
(* list and in its relationships entries is one of the canonical topics    *)
(* passed to the call.                                                     *)
C19_CanonicalTopicsOnly ==
    call.op = "suggest" =>
      \A i \in 1..Len(Returned) :
         /\ \A j \in 1..Len(Returned[i].topics) :
               InList(Returned[i].topics[j], call.topics)
         /\ \A j \in 1..Len(Returned[i].relationships) :
               InList(Returned[i].relationships[j].topic, call.topics)

(* C20: the suggestion set is deduplicated and bounded.  The returned      *)
(* list holds at most max_suggestions users and no user id twice, also     *)
(* when a user has edges to several expanded topics and of several types.  *)
C20_DedupBounded ==
    call.op = "suggest" =>
      /\ Len(Returned) <= call.max_suggestions
      /\ \A i, j \in 1..Len(Returned) : i < j => Returned[i].user_id # Returned[j].user_id

C20_Witness ==
    /\ call.op = "suggest"
    /\ call.max_suggestions = 1
    /\ Len(Candidates) = 3
    /\ Len(Returned) = 1
    /\ Len(call.locals.relevant_users) = 2
    /\ Len(Returned[1].relationships) = 2
    /\ Returned[1].relationships[1].relationship # Returned[1].relationships[2].relationship

----------------------------------------------------------------------------
(* Properties of the tagging gate, checked on the recorded call *)

OnGate == call.op = "gate"
ClassifierAnswers == call.resp.kind = "response"
ClassifierFails == call.resp.kind = "raise"
GateAdmits == call.ret.ret

(* C21: hard reject.  A call with an empty topic list, or with more than 8 *)
(* topics, returns false without calling the classifier, whatever the      *)
(* classifier would have done.                                             *)
C21_HardReject ==
    (OnGate /\ (Len(call.topics) = 0 \/ Len(call.topics) > 8))
        => (~GateAdmits /\ ~call.ret.classifier_called)

(* nine technical topics and a classifier that would answer YES *)
C21_Witness ==
    /\ OnGate
    /\ Len(call.topics) = 9
    /\ has_tech(call.topics)
    /\ ClassifierAnswers /\ call.resp.text = TextYES
    /\ ~GateAdmits

(* At least one topic holds a keyword of the fixed set, case ignored *)
MatchesKeyword(topics) ==
    \E t \in 1..Len(topics), k \in 1..Len(tech_keywords) :
        IsSubstring(tech_keywords[k], Lower(topics[t]))

(* C22: fallback.  When the classifier call fails on an admissible list,   *)
(* the gate returns true iff some topic matches a technical keyword and    *)
(* the list holds at most 3 topics; with more than 3 it returns false.     *)
C22_Fallback ==
    (OnGate /\ ClassifierFails /\ Len(call.topics) \in 1..8)
        => /\ GateAdmits <=> (MatchesKeyword(call.topics) /\ Len(call.topics) <= 3)
           /\ Len(call.topics) > 3 => ~GateAdmits

(* four topics, one of them technical, and the call fails *)
C22_Witness ==
    /\ OnGate /\ ClassifierFails
    /\ Len(call.topics) = 4
    /\ MatchesKeyword(call.topics)
    /\ ~GateAdmits

(* C23 as claimed: when the classifier answers on an admissible list, the  *)
(* gate returns true iff the output text is exactly YES.                   *)
C23_StrictToken ==
    (OnGate /\ ClassifierAnswers /\ Len(call.topics) \in 1..8)
        => (GateAdmits <=> call.resp.text = YES)

(* C23 amended: when the classifier answers on an admissible list, the     *)
(* gate returns true iff the output text, with surrounding whitespace      *)
(* dropped and letters upper-cased, is YES; it returns false for NO, for   *)
(* text with further words or punctuation, and for empty text.             *)
C23_NormalizedToken ==
    (OnGate /\ ClassifierAnswers /\ Len(call.topics) \in 1..8)
        => /\ GateAdmits <=> Upper(Strip(call.resp.text)) = YES
           /\ call.resp.text \in {TextNO, TextYESdot, TextYESNO, TextEmpty} => ~GateAdmits

(* the classifier answers " YES " and the gate admits *)
C23_Witness ==
    /\ OnGate /\ ClassifierAnswers
    /\ Len(call.topics) \in 1..8
    /\ call.resp.text = TextYESpadded
    /\ GateAdmits

----------------------------------------------------------------------------
(* Properties of message delivery, checked on the recorded call *)

OnSay == call.op = "safe_say"
(* what the calls of say_func that were made did, in order *)
CallsMade == SubSeq(call.outcomes, 1, call.ret.calls)

(* C28: delivery failure is swallowed.  For every sequence of delivery     *)
(* outcomes safe_say ends after at most max_retries calls of say_func,     *)
(* without raising; it returns True iff one call succeeded, that call      *)
(* being the last one made, and False otherwise.                           *)
C28_DeliverySwallowed ==
    OnSay =>
        /\ call.ret.calls <= call.max_retries
        /\ ~call.ret.raised
        /\ call.ret.ret \in BOOLEAN
        /\ call.ret.ret <=> (\E i \in 1..Len(CallsMade) : CallsMade[i] = "ok")
        /\ \A i \in 1..Len(CallsMade) : CallsMade[i] = "ok" => i = Len(CallsMade)

(* every attempt is rate limited and the retries run out, the next call    *)
(* would have succeeded                                                    *)
C28_Witness ==
    /\ OnSay
    /\ call.max_retries = 2
    /\ call.ret.calls = 2
    /\ call.outcomes[1] = "ratelimited" /\ call.outcomes[2] = "ratelimited"
    /\ call.outcomes[3] = "ok"
    /\ ~call.ret.ret

----------------------------------------------------------------------------
(* Properties of the graph writer *)

(* the step is a write request that ran to its end *)
GraphWritten == call'.op = "update_graph" /\ call'.ret = "done"
EdgesOf(g, user_id, rel, topic) ==
    {e \in g : e.user = user_id /\ e.rel = rel /\ e.topic = topic}
(* the type a pair is written under, as the enumeration of the spec has it *)
WrittenType(rel) == IF rel \in {IS_EXPERT_IN, WORKING_ON, INTERESTED_IN, MENTIONS} THEN rel ELSE MENTIONS
(* how many pairs of the batch observe the same (type, topic) *)
Observations(batch, rel, topic) ==
    Cardinality({i \in 1..Len(batch) : batch[i].topic = topic /\ WrittenType(batch[i].rel) = rel})

(* a completed write leaves one edge for each pair of its batch, counting  *)
(* one more for each observation, and leaves every other edge alone        *)
UpsertCounts ==
    GraphWritten =>
        /\ \A e, f \in graph' : (e.user = f.user /\ e.rel = f.rel /\ e.topic = f.topic) => e = f
        /\ \A i \in 1..Len(call'.topic_relationships) :
             LET pair == call'.topic_relationships[i]
                 rel == WrittenType(pair.rel)
                 old == EdgesOf(graph, call'.user_id, rel, pair.topic)
                 new == EdgesOf(graph', call'.user_id, rel, pair.topic)
                 n == Observations(call'.topic_relationships, rel, pair.topic)
             IN  /\ Cardinality(new) = 1
                 /\ \A e \in new :
                      /\ e.last = call'.timestamp
                      /\ old = {} => e.count = n
                      /\ \A o \in old : e.count = o.count + n
        /\ \A e \in graph :
             (\A i \in 1..Len(call'.topic_relationships) :
                ~(/\ e.user = call'.user_id
                  /\ e.topic = call'.topic_relationships[i].topic
                  /\ e.rel = WrittenType(call'.topic_relationships[i].rel)))
                 => e \in graph'

(* no edge's last-activity timestamp is smaller after a step than before *)
StampsNeverMoveBack ==
    \A o \in graph : \A e \in EdgesOf(graph', o.user, o.rel, o.topic) : e.last >= o.last

(* C29 as claimed: after any sequence of writes the store holds at most    *)
(* one edge of a type between a user and a topic; a repeated observation   *)
(* adds exactly one to the count of that edge and sets its last-activity   *)
(* timestamp, which never moves backwards; the user and the topic exist    *)
(* after the write.                                                        *)
C29_UpsertInvariant == [][UpsertCounts /\ StampsNeverMoveBack]_vars

(* C30: an unknown relationship type is normalized, not rejected.  A write *)
(* request that ran to its end has written every pair of its batch: a      *)
(* pair of unknown type as a MENTIONS edge, every other pair under its own *)
(* type, and the store holds no edge of a type outside the enumeration.    *)
C30_UnknownTypeNormalized ==
    [][/\ UpsertCounts
       /\ \A e \in graph' : e.rel \in {IS_EXPERT_IN, WORKING_ON, INTERESTED_IN, MENTIONS}]_vars

(* a batch of an unknown-type pair and an expert pair, both written *)
C30_Witness ==
    /\ call.op = "update_graph" /\ call.ret = "done"
    /\ Len(call.topic_relationships) = 2
    /\ call.topic_relationships[1] = [topic |-> AI, rel |-> KNOWS]
    /\ call.topic_relationships[2] = [topic |-> ML, rel |-> IS_EXPERT_IN]
    /\ EdgesOf(graph, call.user_id, MENTIONS, AI) # {}
    /\ EdgesOf(graph, call.user_id, IS_EXPERT_IN, ML) # {}
    /\ EdgesOf(graph, call.user_id, KNOWS, AI) = {}

----------------------------------------------------------------------------
(* Properties of the ownership of the cooldown map *)

(* the step creates or overwrites the entry of u *)
EntryWritten(u) ==
    /\ u \in DOMAIN user_tag_cooldowns'
    /\ u \notin DOMAIN user_tag_cooldowns \/ user_tag_cooldowns'[u] # user_tag_cooldowns[u]
(* the step deletes the entry of u *)
EntryDeleted(u) == u \in DOMAIN user_tag_cooldowns /\ u \notin DOMAIN user_tag_cooldowns'
(* the step is update_user_cooldown(u): u is stamped with the present time *)
(* and no other entry changes                                              *)
StepMarks(u) ==
    /\ u \in DOMAIN tagged' /\ tagged'[u] = now
    /\ user_tag_cooldowns'[u] = now
    /\ DOMAIN user_tag_cooldowns' = DOMAIN user_tag_cooldowns \cup {u}
    /\ \A v \in DOMAIN user_tag_cooldowns \ {u} : user_tag_cooldowns'[v] = user_tag_cooldowns[v]
    /\ call'.op = "idle"
(* the step is clear_expired_cooldowns: only entries older than the window *)
(* go, the others stay as they are                                         *)
StepSweeps ==
    /\ \A v \in DOMAIN user_tag_cooldowns \ DOMAIN user_tag_cooldowns' :
         now - user_tag_cooldowns[v] > Window
    /\ DOMAIN user_tag_cooldowns' \subseteq DOMAIN user_tag_cooldowns
    /\ \A v \in DOMAIN user_tag_cooldowns' : user_tag_cooldowns'[v] = user_tag_cooldowns[v]
    /\ tagged' = tagged
    /\ call'.op = "idle"

(* C27: cooldown entries are mutated only by the cooldown tracker.  A step *)
(* of suggest_relevant_users, expand_topics_for_matching,                  *)
(* should_suggest_users or a formatting function leaves user_tag_cooldowns *)
(* unchanged; an entry is created or overwritten only by a step of         *)
(* update_user_cooldown and deleted only by a step of                      *)
(* clear_expired_cooldowns.                                                *)
C27_TrackerOwnsCooldowns ==
    [][/\ call'.op \in {"suggest", "expand", "gate", "format"}
            => user_tag_cooldowns' = user_tag_cooldowns
       /\ \A u \in Users : EntryWritten(u) => StepMarks(u)
       /\ \A u \in Users : EntryDeleted(u) => StepSweeps]_vars

(* a call returned a user who has no entry while another user has one, and *)
(* the suggestions were formatted into a message                           *)
C27_Witness ==
    /\ call.op = "format"
    /\ call.ret.kind = "simple"
    /\ call.ret.user_id \notin DOMAIN user_tag_cooldowns
    /\ user_tag_cooldowns # <<>>

----------------------------------------------------------------------------
(* Properties of concurrent suggestion cycles *)

ReturnedBy(c) == {cycle[c].returned[i] : i \in 1..Len(cycle[c].returned)}

(* every entry of the map is the stamp of the latest mark of its user *)
RaceMapWellFormed ==
    /\ DOMAIN user_tag_cooldowns \subseteq Users
    /\ \A u \in DOMAIN user_tag_cooldowns :
         /\ user_tag_cooldowns[u] <= now
         /\ \E c \in Cycles : u \in DOMAIN cycle[c].marks /\ cycle[c].marks[u] = user_tag_cooldowns[u]
         /\ \A c \in Cycles : u \in DOMAIN cycle[c].marks => cycle[c].marks[u] <= user_tag_cooldowns[u]
    /\ \A c \in Cycles : DOMAIN cycle[c].marks \subseteq DOMAIN user_tag_cooldowns

(* a cycle whose check of u ran after another cycle's mark of u, less than *)
(* the window after it, does not return u                                  *)
CheckAfterMarkSuppresses ==
    \A d \in Cycles : \A k \in 1..Len(cycle[d].checked) :
        LET check == cycle[d].checked[k]
        IN  \A c \in check.after :
                check.at - cycle[c].marks[check.user] < Window
                    => check.user \notin ReturnedBy(d)

(* C24: filter-then-mark is not atomic.  The cooldown map stays            *)
(* well-formed in every interleaving of two suggestion cycles, and a cycle *)
(* returns a user another cycle marked less than USER_TAG_COOLDOWN before  *)
(* only when its check of that user ran before that mark; such an          *)
(* interleaving exists (the witness), so 'no user is selected by two       *)
(* cycles less than USER_TAG_COOLDOWN apart' does not hold.                *)
C24_FilterThenMarkRace == RaceMapWellFormed /\ CheckAfterMarkSuppresses

(* both cycles returned "A" and both marked it, less than the window apart *)
C24_Witness ==
    /\ "A" \in ReturnedBy("c1") /\ "A" \in ReturnedBy("c2")
    /\ "A" \in DOMAIN cycle["c1"].marks /\ "A" \in DOMAIN cycle["c2"].marks
    /\ cycle["c2"].marks["A"] - cycle["c1"].marks["A"] \in 0..(Window - 1)
    /\ cycle["c2"].checked[1].after = {}

----------------------------------------------------------------------------
(* Properties of the lock discipline *)

InExternalCall(w) == worker[w].in_call
(* w waits at a with statement whose lock v holds *)
BlockedBy(w, v) ==
    /\ Running(w) /\ ~worker[w].in_call
    /\ Instr(w).op = "acquire"
    /\ Instr(w).on \in worker[v].holds

(* C25: no external call under a lock.  A thread inside an external call   *)
(* (graph query, classifier, Slack, Airtable) holds neither                *)
(* conversation_lock nor cooldown_lock, no thread holds both locks, and a  *)
(* thread that waits for a lock never waits for a thread that is inside an *)
(* external call.                                                          *)
C25_NoExternalCallUnderLock ==
    /\ \A w \in Workers : InExternalCall(w) => worker[w].holds = {}
    /\ \A w \in Workers : Cardinality(worker[w].holds) <= 1
    /\ \A w \in Workers :
         /\ conversation_lock = w <=> "conversation_lock" \in worker[w].holds
         /\ cooldown_lock = w <=> "cooldown_lock" \in worker[w].holds
    /\ \A w, v \in Workers : BlockedBy(w, v) => ~InExternalCall(v)

(* one thread is inside the classifier call of get_openai_response while   *)
(* the other holds conversation_lock                                       *)
C25_Witness ==
    /\ worker["w1"].prog = get_openai_response_steps
    /\ InExternalCall("w1") /\ Instr("w1") = Io("classifier")
    /\ conversation_lock = "w2"
    /\ Instr("w2").op = "mem"

----------------------------------------------------------------------------
(* Properties of the conversation state *)

(* what conversation_state holds for a user, the history list included *)
StoredValue(states, objs, u) ==
    IF u \notin DOMAIN states THEN None
    ELSE LET d == objs[states[u]]
         IN  [step |-> d.step,
              conversation_history |->
                  IF d.conversation_history = NoRef THEN None
                  ELSE objs[d.conversation_history].items]

(* C26 as claimed: every read returns a defensive copy.  A mutation the    *)
(* caller makes to the value it got from get_conversation_state or         *)
(* safe_get_conversation_state, its conversation_history list included,    *)
(* leaves what conversation_state holds unchanged.                         *)
C26_ReadsReturnCopies ==
    [][call'.op = "caller_mutates"
          => \A u \in StateUsers :
                StoredValue(conversation_state', objects', u)
                    = StoredValue(conversation_state, objects, u)]_vars

----------------------------------------------------------------------------
(* Properties of the parsers of classifier output, checked on the recorded call *)

OnParse == call.op \in {"extract_topics", "extract_interests"}
OutputParsed ==
    /\ call.resp.kind = "response"
    /\ ~(call.resp.status = "incomplete" /\ call.resp.text = <<>>)
OutputItems == Split(Strip(call.resp.text), ",")
Pairs == call.ret.pairs

(* C31: an item of the classifier output that has no "|" is given the      *)
(* lowest-priority relationship type MENTIONS, by the topic parser and by  *)
(* the interest parser alike.                                              *)
C31_DefaultIsLowestPriority ==
    (OnParse /\ OutputParsed) =>
        \A i \in 1..Len(OutputItems) :
            (~HasBar(OutputItems[i]) /\ i <= Len(Pairs)) => Pairs[i][2] = MENTIONS_str

(* C32: a blank item of the output is skipped, so the topic parser never   *)
(* returns a pair whose label is empty, and it still returns the pairs of  *)
(* the well-formed items of the same output, in order.                     *)
C32_BlankItemsSkipped ==
    (call.op = "extract_topics" /\ OutputParsed) =>
        /\ \A i \in 1..Len(Pairs) : Pairs[i][1] # <<>>
        /\ Pairs = ParseItems(SelectSeq(OutputItems, LAMBDA it : Strip(it) # <<>>),
                              MENTIONS_str)

----------------------------------------------------------------------------
(* Properties of the survey bot, checked on the recorded handler call *)

OnTrigger == call.op = "trigger_survey"
InvokedByAdmin == InList(call.user_id, ADMIN_USER_IDS)

(* C33: only admins can trigger the survey.  A /trigger-survey command of  *)
(* a user who is not in ADMIN_USER_IDS, whatever its text, produces the    *)
(* access-denied response and starts no background thread; hence every     *)
(* survey thread, and every invitation a survey thread delivers, goes back *)
(* to the command of an admin.                                             *)
C33_OnlyAdminsTrigger ==
    /\ (OnTrigger /\ ~InvokedByAdmin) =>
           (call.ret = "access_denied" /\ call.started = <<>>)
    /\ \A i \in 1..Len(run_survey) : InList(run_survey[i].by, ADMIN_USER_IDS)
    /\ \A d \in dm_log : InList(d.by, ADMIN_USER_IDS)

(* a user who is not an admin sends a well-formed command after an admin's *)
(* survey has delivered an invitation                                      *)
C33_Witness ==
    /\ OnTrigger
    /\ call.user_id = "U"
    /\ call.text = <<"t", " ", "A", "L", "L">>
    /\ call.ret = "access_denied"
    /\ dm_log # {}

OnResponse == call.op = "get_openai_response"
KnownBefore == call.user_id \in DOMAIN call.before
StepBefore == IF KnownBefore THEN call.before[call.user_id].step ELSE "not_started"
HistoryBefore == IF KnownBefore THEN call.before[call.user_id].conversation_history ELSE <<>>
InitialisedBefore ==
    IF KnownBefore THEN call.before
    ELSE DictSet(call.before, call.user_id, StateDict("not_started", <<>>))

(* C39: get_openai_response calls the language model, and appends to the   *)
(* conversation history, only while the user's step is "started".  In step *)
(* "not_started" and in step "completed" it returns the fixed message,     *)
(* makes no model call and leaves step and history as they were; a user    *)
(* without a state is first given step "not_started" and an empty history. *)
C39_ModelOnlyWhileStarted ==
    OnResponse =>
        /\ call.model_called => StepBefore = "started"
        /\ conversation_state[call.user_id].conversation_history # HistoryBefore
               => StepBefore = "started"
        /\ StepBefore = "not_started" =>
               /\ ~call.model_called
               /\ call.ret = "use_button_notice"
               /\ conversation_state = InitialisedBefore
        /\ StepBefore = "completed" =>
               /\ ~call.model_called
               /\ call.ret = "complete_notice"
               /\ conversation_state = call.before

(* a message of a user whose survey is completed with a recorded exchange, *)
(* when the language model would answer                                    *)
C39_Witness ==
    /\ OnResponse
    /\ StepBefore = "completed"
    /\ Len(HistoryBefore) >= 2
    /\ call.text = "hello"
    /\ call.ret = "complete_notice"

(* C40: the survey step is monotone.  Once a user's step is "completed",   *)
(* every later event (a direct message, a click on the start button, a     *)
(* survey run that invites the user again) leaves the step "completed" and *)
(* the recorded conversation history in place.                             *)
C40_CompletedIsFinal ==
    [][\A u \in DOMAIN conversation_state :
          conversation_state[u].step = "completed"
              => (u \in DOMAIN conversation_state' /\ conversation_state'[u] = conversation_state[u])]_vars

----------------------------------------------------------------------------
(* Properties of concurrent get_openai_response calls for one user *)

StoredHistory ==
    IF TurnUser \in DOMAIN conversation_state
    THEN conversation_state[TurnUser].conversation_history ELSE <<>>
HasWritten(t) == turn[t].wrote_at > 0
Recorded(t) ==
    \E i \in 1..(Len(StoredHistory) - 1) :
        /\ StoredHistory[i] = <<"user", turn[t].user_message>>
        /\ StoredHistory[i + 1] = <<"assistant", turn[t].bot_response>>
Overwrote(s, t) ==
    /\ HasWritten(s)
    /\ turn[s].wrote_at > turn[t].wrote_at
    /\ turn[s].read_at < turn[t].wrote_at

(* C34: conversation-history writes of one user are lock-protected one by  *)
(* one but not mutually exclusive as read-modify-write.  The stored        *)
(* history is always a sequence of whole user/assistant exchanges, and the *)
(* exchange a call has written is missing from it exactly when the other   *)
(* call read the history (307) before that write and wrote its own (311)   *)
(* after it: the lost update.                                              *)
C34_LostHistoryUpdate ==
    /\ Len(StoredHistory) % 2 = 0
    /\ \A i \in 1..Len(StoredHistory) :
         StoredHistory[i][1] = (IF i % 2 = 1 THEN "user" ELSE "assistant")
    /\ \A t \in Turns :
         HasWritten(t) => (~Recorded(t) <=> \E s \in Turns \ {t} : Overwrote(s, t))

(* both calls found step "started", both have written and returned, and    *)
(* the exchange of t1 is gone                                              *)
C34_Witness ==
    /\ \A t \in Turns :
         turn[t].pc = "done" /\ HasWritten(t) /\ turn[t].state.step = "started"
    /\ ~Recorded("t1")
    /\ Recorded("t2")

----------------------------------------------------------------------------
(* Properties of the candidate order, checked on the recorded call *)

(* the edges of relevant_users in the order the consolidation loop visits  *)
(* them: topic after topic, each topic's rows by rank                      *)
RECURSIVE Visited(_)
Visited(relevant_users) ==
    IF relevant_users = <<>> THEN <<>>
    ELSE Head(relevant_users).users \o Visited(Tail(relevant_users))

FirstEncounter(user_id) ==
    LET edges == Visited(call.locals.relevant_users)
    IN  CHOOSE i \in 1..Len(edges) :
            /\ edges[i].user_id = user_id
            /\ \A j \in 1..(i - 1) : edges[j].user_id # user_id

PositionOf(user_id, users) == CHOOSE i \in 1..Len(users) : users[i].user_id = user_id

SameSortKey(u, v) == SortTier(u) = SortTier(v) /\ u.activity_level = v.activity_level

(* C35: the candidate order is stable and the filter preserves it.  Two    *)
(* candidates with equal tier and equal activity level stand in the order  *)
(* in which the per-topic iteration first met them, and the users returned *)
(* stand in the relative order they have among the sorted candidates.      *)
C35_StableOrder ==
    call.op = "suggest" =>
      /\ \A i, j \in 1..Len(Candidates) :
           (i < j /\ SameSortKey(Candidates[i], Candidates[j]))
             => FirstEncounter(Candidates[i].user_id) < FirstEncounter(Candidates[j].user_id)
      /\ \A i, j \in 1..Len(Returned) :
           i < j => PositionOf(Returned[i].user_id, Candidates)
                      < PositionOf(Returned[j].user_id, Candidates)

(* B was met before A, both have the same sort key, a user in cooldown     *)
(* stood before them, and both are returned in that order                  *)
C35_Witness ==
    /\ call.op = "suggest"
    /\ \E i, j \in 1..Len(Returned) :
         /\ i < j
         /\ Returned[i].user_id = "B"
         /\ Returned[j].user_id = "A"
         /\ SameSortKey(Returned[i], Returned[j])
    /\ \E k \in Suppressed : k < PositionOf("B", Candidates)

----------------------------------------------------------------------------
(* Properties of the retries of safe_say, checked on the recorded call *)

(* the seconds slept after the first n calls of say_func, 2^k after a      *)
(* rate-limited attempt k (attempts count from 0)                          *)
RECURSIVE SecondsWaited(_)
SecondsWaited(n) ==
    IF n = 0 THEN 0
    ELSE SecondsWaited(n - 1) + (IF CallsMade[n] = "ratelimited" THEN 2 ^ (n - 1) ELSE 0)

(* C36: safe_say retries only on the rate-limit signal.  Another Slack API *)
(* error or another exception ends it with False after that attempt, every *)
(* attempt that is followed by another one was rate limited, and after a   *)
(* rate-limited attempt k it sleeps 2^k seconds: 1, 2 and 4 seconds when   *)
(* the three attempts of the default are all rate limited.                 *)
C36_RetryOnlyOnRateLimit ==
    OnSay =>
        /\ \A i \in 1..Len(CallsMade) :
             CallsMade[i] \in {"slack_error", "exception"}
                 => (i = Len(CallsMade) /\ call.ret.ret = FALSE)
        /\ \A i \in 1..(Len(CallsMade) - 1) : CallsMade[i] = "ratelimited"
        /\ call.ret.slept = SecondsWaited(Len(CallsMade))
        /\ (/\ call.max_retries = 3
            /\ \A i \in 1..3 : call.outcomes[i] = "ratelimited")
               => (call.ret.calls = 3 /\ call.ret.slept = 1 + 2 + 4)

(* two rate-limited attempts of the default three, then a Slack error that *)
(* is not a rate limit: 3 seconds slept, no further attempt                *)
C36_Witness ==
    /\ OnSay
    /\ call.max_retries = 3
    /\ CallsMade = <<"ratelimited", "ratelimited", "slack_error">>
    /\ call.ret.slept = 3
    /\ call.ret.ret = FALSE

----------------------------------------------------------------------------
(* Properties of the tagging gate on a truncated classifier response *)

TruncatedWithoutText ==
    /\ ClassifierAnswers
    /\ call.resp.status = "incomplete"
    /\ call.resp.text = <<>>

(* C37: when the classifier's response is cut by the token limit and       *)
(* carries no output text, the gate returns false at once: the keyword     *)
(* heuristic of the failure path is not consulted, even for a topic list   *)
(* it would admit.                                                         *)
C37_TruncatedRejects ==
    (OnGate /\ TruncatedWithoutText /\ Len(call.topics) \in 1..8)
        => (~GateAdmits /\ call.ret.path = "truncated" /\ call.ret.classifier_called)

(* one technical topic, which the heuristic admits, and a truncated        *)
(* response without text                                                   *)
C37_Witness ==
    /\ OnGate
    /\ TruncatedWithoutText
    /\ call.topics = <<AI>>
    /\ MatchesKeyword(call.topics)
    /\ ~GateAdmits

----------------------------------------------------------------------------
(* Properties of the remaining cooldown *)

(* max(0, USER_TAG_COOLDOWN - (now - last_tagged[u])) in clock ticks, 0    *)
(* for a user without entry                                                *)
RemainingTicks(u) ==
    IF u \notin DOMAIN user_tag_cooldowns THEN 0
    ELSE IF Window - (now - user_tag_cooldowns[u]) > 0
         THEN Window - (now - user_tag_cooldowns[u]) ELSE 0

(* C38: get_cooldown_remaining(u) is USER_TAG_COOLDOWN less the time since *)
(* the user's stamp, not below 0, and 0 for a user without entry; so in    *)
(* every reachable state it is positive iff the user is in cooldown, and   *)
(* it never exceeds USER_TAG_COOLDOWN.                                     *)
C38_RemainingMatchesCooldown ==
    \A u \in Users :
        LET remaining == get_cooldown_remaining(user_tag_cooldowns, now, u)
        IN  /\ remaining * TicksPerSecond = RemainingTicks(u)
            /\ remaining > 0 <=> is_user_in_cooldown(user_tag_cooldowns, now, u)
            /\ remaining <= USER_TAG_COOLDOWN

====
